---- MODULE Spec2Model ----
(***************************************************************************)
(* The cache/fetch coordination engine of raycast-fathom: the CacheManager *)
(* singleton (src/src/utils/cacheManager.ts), the Record Cache it writes   *)
(* through (src/src/utils/cache.ts), the paginated remote data source      *)
(* (listMeetings, src/src/fathom/api.ts) and the request de-duplication    *)
(* queue (utils/requestQueue, whose source is not part of the tree and is  *)
(* modelled from its contract).                                            *)
(*                                                                         *)
(* Scheduling is the JavaScript event loop: a step of the model is what    *)
(* runs between two completions of real I/O (a network response, a storage *)
(* operation, a toast round trip) or a call made by an observer.           *)
(***************************************************************************)
EXTENDS Integers, Sequences, FiniteSets, TLC

\* ---------------------------------------------------------------- bounds

\* The most meetings the remote data source holds (one meeting per page).
MaxMeetings == 7
\* Number of calls and faults the environment makes in one behaviour.
MaxOps == 3
\* Number of callers that may wait on one queue key.
MaxCallers == 2
\* Slots for background remaining-pages loops alive at the same time.
MaxBg == 2
\* Wall-clock time (in seconds) at which the process starts.
T0 == 3000000
\* Number of listeners registered at the same time, of each kind.
MaxListeners == 2
\* Number of loadCache calls in progress at the same time.
MaxLoaders == 3
\* Number of record ids of the Record Cache when it is modelled in full.
MaxRecords == 3
\* The longest search query, and the longest list of records searched.
MaxQueryLen == 4
MaxSearched == 2

\* ------------------------------------------------------ program constants

\* Time is counted in seconds: the code's millisecond values divided by 1000
\* (30 days in milliseconds does not fit TLC's 32-bit integers).
CACHE_SIZE == 500
CACHE_STALE_THRESHOLD == 5 * 60
FETCH_COOLDOWN == 5
MAX_BACKGROUND_PAGES == 4
MAX_PAGES == 5
MEETINGS_TTL == 30 * 24 * 60 * 60
ACTION_ITEMS_TTL == 6 * 60 * 60

\* ------------------------------------------------------------- helpers

Range(s) == { s[i] : i \in 1..Len(s) }

RECURSIVE Insert(_, _)
Insert(x, s) ==
  IF s = <<>> THEN <<x>>
  ELSE IF x <= Head(s) THEN <<x>> \o s
  ELSE <<Head(s)>> \o Insert(x, Tail(s))

\* Array.prototype.sort() of the ids (ids are single digits, so the string
\* order sort() uses is the numeric order).
RECURSIVE SortIds(_)
SortIds(s) == IF s = <<>> THEN <<>> ELSE Insert(Head(s), SortIds(Tail(s)))

\* --------------------------------------------------- remote data source

\* The ids a record can have.
Meetings == 1..MaxMeetings
Filters == {"all", "owner"}

\* Which meetings a filter selects on the server.
Matches(f, m) ==
  CASE f = "all"   -> TRUE
    [] f = "owner" -> m = 2

\* The meetings a filter selects when the server holds meetings 1..n.
Matching(f, n) == SelectSeq([i \in 1..n |-> i], LAMBDA m : Matches(f, m))

\* A missing cursor (undefined / empty string).
NoCursor == 0

\* listMeetings({...filter, cursor}) against a server that holds n meetings:
\* one page (one meeting) and the cursor of the next page, absent on the
\* last one.  A cursor is the index of the page it continues at.
ListMeetings(f, c, n) ==
  LET all == Matching(f, n)
      k   == IF c = NoCursor THEN 1 ELSE c
  IN  [ items      |-> IF k <= Len(all) THEN <<all[k]>> ELSE <<>>,
        nextCursor |-> IF k < Len(all) THEN k + 1 ELSE NoCursor ]

\* ----------------------------------------------------------- Record Cache

\* isCacheValid with the comparison turned into <=.
IsCacheValidInclusive(cachedAt, ttl, t) == t - cachedAt <= ttl

\* isCacheValid(cachedAt, ttl)
IsCacheValid(cachedAt, ttl, t) == t - cachedAt < ttl

\* The per-record writes of cacheMeetingsBatch: every record of the batch is
\* stored with cachedAt = now.  A store maps a record id to its cachedAt, 0
\* when there is no entry.
CacheMeetingsBatch(st, ids, t) ==
  [m \in Meetings |-> IF m \in Range(ids) THEN t ELSE st[m]]

\* updateMeetingIndexBatch without its `includes` test.
UpdateMeetingIndexAppends(idx, ids) == idx \o ids

\* updateMeetingIndexBatch: ids not yet in the index are appended in order.
RECURSIVE UpdateMeetingIndexBatch(_, _)
UpdateMeetingIndexBatch(idx, ids) ==
  IF ids = <<>> THEN idx
  ELSE UpdateMeetingIndexBatch(
         IF Head(ids) \in Range(idx) THEN idx ELSE Append(idx, Head(ids)),
         Tail(ids))

\* getAllCachedMeetings: the ids of the stored records whose record TTL has
\* not elapsed.
GetAllCachedMeetings(st, t) ==
  { m \in Meetings : st[m] # 0 /\ IsCacheValid(st[m], MEETINGS_TTL, t) }

\* pruneCache(keepCount): the records kept (the newest keepCount by cachedAt).
PruneKept(st, keep, t) ==
  LET live == GetAllCachedMeetings(st, t)
  IN  IF Cardinality(live) <= keep THEN live
      ELSE CHOOSE K \in SUBSET live :
             /\ Cardinality(K) = keep
             /\ \A a \in K, b \in live \ K :
                  st[a] > st[b] \/ (st[a] = st[b] /\ a < b)

PruneCacheStore(st, keep, t) ==
  LET live == GetAllCachedMeetings(st, t)
      kept == PruneKept(st, keep, t)
  IN  [m \in Meetings |-> IF m \in live \ kept THEN 0 ELSE st[m]]

PruneCacheIndex(st, idx, keep, t) ==
  LET live == GetAllCachedMeetings(st, t)
  IN  IF Cardinality(live) <= keep THEN idx
      ELSE SortIds(SelectSeq([i \in 1..MaxMeetings |-> i],
                             LAMBDA m : m \in PruneKept(st, keep, t)))

\* updateCacheMetadataFromMeetings: the metadata entry is removed (0) when
\* there are no meetings, else its lastUpdated is now.
UpdateCacheMetadataFromMeetings(cached, t) == IF cached = {} THEN 0 ELSE t

\* ------------------------------------------------ request de-dup queue

\* A queue key.  fetchAndCache uses `fetch-meetings:${JSON.stringify(filter)}`.
Keys == [filter : Filters, extra : {"", "force", "lazy"}]

\* enqueue(key, task): callers that wait on key, and how often task was
\* invoked for them.  A key with no caller has no task in flight.
EnqueueRerun(q, key) ==
  [q EXCEPT ![key] = [callers |-> @.callers + 1, execs |-> @.execs + 1]]

Enqueue(q, key) ==
  IF q[key].callers > 0
  THEN [q EXCEPT ![key].callers = @ + 1]
  ELSE [q EXCEPT ![key] = [callers |-> 1, execs |-> 1]]

\* The outcome of the task as each waiting caller receives it.
SettleFirstOnly(q, key, outcome) ==
  [c \in 1..q[key].callers |->
     IF c = 1 THEN outcome ELSE [ok |-> FALSE, result |-> {}]]

Settle(q, key, outcome) == [c \in 1..q[key].callers |-> outcome]

Dequeue(q, key) == [q EXCEPT ![key] = [callers |-> 0, execs |-> 0]]

\* ------------------------------------------------------ Cache Coordinator

VARIABLES
  numMeetings,          \* how many meetings the remote data source holds
  now,                  \* Date.now()
  ops,                  \* calls and faults of the environment so far
  store,                \* LocalStorage: record id -> cachedAt (0: no entry)
  index,                \* LocalStorage: cache:meeting:index (meetingIds)
  metadata,             \* LocalStorage: cache:metadata lastUpdated (0: none)
  cachedMeetings,       \* CacheManager.cachedMeetings (ids)
  isCaching,
  lastApiDataHash,
  lastFetchTime,
  lastCacheUpdateTime,
  nextCursor,
  hasMoreMeetings,
  isLoadingMore,
  remainingPagesToken,
  loadMoreToken,
  isFetchingBackground,
  fetchingDelivered,    \* the last value delivered to the fetching listeners
  fetchingListeners,    \* CacheManager.fetchingListeners, in insertion order
  fetchingSeen,         \* per fetching listener, the last two values it got
  lastNotified,         \* the record set last passed to the listeners
  listeners,            \* CacheManager.listeners, in insertion order
  listenerCalls,        \* the calls of the latest notification, in order
  isLoaded,
  isLoading,
  loader,               \* the loadCache calls in progress, per caller
  storageReads,         \* how often loadCache has read the persisted cache
  entries,              \* LocalStorage in full: record id -> the JSON stored
  cacheCall,            \* the Record Cache call made last, and what it saw
  sweep,                \* the pruneExpiredFromIndex call in progress
  search,               \* a searchCachedMeetings call: arguments and result
  hook,                 \* the state of a mounted useCachedMeetings hook
  session,              \* what the sessions before this one left behind
  queue,                \* globalQueue
  task,                 \* the first-page task of fetchAndCache, per key
  bg,                   \* the fetchRemainingPages loops
  lm,                   \* the loadMoreMeetings task
  merge,                \* the cacheApiResults call in progress
  event                 \* what the last step delivered to a caller

coordVars == << cachedMeetings, isCaching, lastApiDataHash, lastFetchTime,
                lastCacheUpdateTime, nextCursor, hasMoreMeetings,
                isLoadingMore, remainingPagesToken, loadMoreToken,
                isFetchingBackground, fetchingDelivered, fetchingListeners,
                fetchingSeen, lastNotified, listeners, listenerCalls >>
storeVars == << store, index, metadata >>
procVars == << queue, task, bg, lm, merge >>
loadVars == << isLoaded, isLoading, loader, storageReads >>
\* What the fetch paths neither read nor write.
recordVars == << entries, cacheCall, sweep >>
viewVars == << search, hook, session >>
restVars == << loadVars, recordVars, viewVars >>
\* What a coordinator method leaves alone when the hook calls it: the hook's
\* own state is set by the caller.
calledVars == << recordVars, search, session >>
vars == << numMeetings, now, ops, storeVars, coordVars, procVars, restVars,
           event >>

fetchVars == << isFetchingBackground, fetchingDelivered, fetchingListeners,
               fetchingSeen >>
notifyVars == << lastNotified, listeners, listenerCalls >>

\* The listener functions: every subscription passes a closure of its own.
ListenerIds == 1..MaxListeners

\* What a listener remembers of its calls: the last two values it was given.
Received(seen, v) == IF Len(seen) < 2 THEN Append(seen, v) ELSE << seen[2], v >>

\* this.fetchingListeners.forEach((l) => l(value))
CallFetchingListeners(value) ==
  [l \in ListenerIds |->
     IF l \in fetchingListeners THEN Received(fetchingSeen[l], value)
     ELSE fetchingSeen[l]]

\* setFetchingBackground(value): the listeners are called when the flag changes.
SetFetchingBackgroundSilent(value) ==
  /\ isFetchingBackground' = value
  /\ fetchingDelivered' = IF value THEN value ELSE fetchingDelivered
  /\ fetchingSeen' = IF isFetchingBackground = value THEN fetchingSeen
                     ELSE CallFetchingListeners(value)
  /\ UNCHANGED fetchingListeners

SetFetchingBackgroundAlways(value) ==
  /\ isFetchingBackground' = value
  /\ fetchingDelivered' =
       IF isFetchingBackground = value THEN fetchingDelivered ELSE value
  /\ fetchingSeen' = CallFetchingListeners(value)
  /\ UNCHANGED fetchingListeners

SetFetchingBackground(value) ==
  /\ isFetchingBackground' = value
  /\ fetchingDelivered' =
       IF isFetchingBackground = value THEN fetchingDelivered ELSE value
  /\ fetchingSeen' = IF isFetchingBackground = value THEN fetchingSeen
                     ELSE CallFetchingListeners(value)
  /\ UNCHANGED fetchingListeners

\* A call of a cache listener.
Call(l, meetings) == [listener |-> l, meetings |-> meetings]

\* notifyListeners(): this.listeners.forEach((listener) => listener(...)), a
\* Set being iterated in insertion order.
NotifyListenersReversed(meetings) ==
  /\ lastNotified' = meetings
  /\ listenerCalls' = [i \in 1..Len(listeners) |->
                         Call(listeners[Len(listeners) + 1 - i], meetings)]
  /\ UNCHANGED listeners

NotifyListeners(meetings) ==
  /\ lastNotified' = meetings
  /\ listenerCalls' = [i \in 1..Len(listeners) |-> Call(listeners[i], meetings)]
  /\ UNCHANGED listeners

\* lastApiDataHash = null
NoHash == << -1 >>
\* No notification has been sent yet.
NoNotify == { -1 }

NoKey == [filter |-> "none", extra |-> ""]
\* refresh: a refreshCache call waits on the task.
IdleTask == [pc |-> "idle", items |-> <<>>, cursor |-> NoCursor, meta |-> 0,
             refresh |-> FALSE]
IdleBg == [pc |-> "idle", filter |-> "none", startCursor |-> NoCursor,
           already |-> <<>>, token |-> 0, cursor |-> NoCursor,
           items |-> <<>>, pageNum |-> 0, meta |-> 0,
           stopSeen |-> FALSE, wrote |-> FALSE]
IdleLm == [pc |-> "idle", filter |-> "none", startCursor |-> NoCursor,
           token |-> 0, cursor |-> NoCursor, items |-> <<>>, pageNum |-> 0,
           meta |-> 0, stopSeen |-> FALSE, wrote |-> FALSE]
NoMerge == [pc |-> "none", kind |-> "none", key |-> NoKey, slot |-> 0,
            batch |-> <<>>]

\* A loadCache call: where it is, when its wait began, what it read.
IdleLoader == [pc |-> "idle", startTime |-> 0, cached |-> {}]

NoOutcome == [ok |-> FALSE, result |-> {}]
\* An event: its type, the key or filter it is about, the outcome, and for a
\* settled queue task what each caller received and how often the task ran.
Ev(type, key, ok, result) ==
  [type |-> type, key |-> key, ok |-> ok, result |-> result,
   outcomes |-> <<>>, execs |-> 0]
NoEvent == Ev("none", NoKey, FALSE, {})
SettleEv(key, ok, result) ==
  [type |-> "settle", key |-> key, ok |-> ok, result |-> result,
   outcomes |-> Settle(queue, key, [ok |-> ok, result |-> result]),
   execs |-> queue[key].execs]

\* The remote data source holds two pages, or more than any loop fetches.
RemoteSizes == { 2, MaxMeetings }

\* The record ids of the Record Cache modelled in full.
CacheIds == 1..MaxRecords

\* No Record Cache call has been made.
NoCall == [type |-> "none", pc |-> "done", at |-> 0, batch |-> <<>>, keep |-> 0,
           entries |-> [id \in CacheIds |-> {}], index |-> <<>>,
           result |-> {}, sorted |-> <<>>, repeat |-> FALSE,
           fault |-> "none", threw |-> FALSE]
NoSweep == [pc |-> "idle", expiredIds |-> {}, meetingIds |-> <<>>]

\* The Record Cache in full is empty and unused.
NoRecords ==
  /\ entries = [id \in CacheIds |-> {}]
  /\ cacheCall = NoCall
  /\ sweep = NoSweep

\* No search has been made and no hook is mounted.
NoSearch == [records |-> <<>>, query |-> <<>>, result |-> <<>>, pc |-> "none"]
NoHook == [pc |-> "unmounted", hasMore |-> FALSE, cached |-> {},
           refreshing |-> FALSE, loadMore |-> "idle"]
\* The first session: nothing was held in memory before.
NoSession == [restarts |-> 0, cursor |-> NoCursor, hasMore |-> TRUE]
NoView == search = NoSearch /\ hook = NoHook /\ session = NoSession

\* The coordinator after construction, but for lastCacheUpdateTime.
InitMemory ==
  /\ now = T0
  /\ ops = 0
  /\ cachedMeetings = {}
  /\ isCaching = FALSE
  /\ lastApiDataHash = NoHash
  /\ lastFetchTime = 0
  /\ nextCursor = NoCursor
  /\ hasMoreMeetings = TRUE
  /\ isLoadingMore = FALSE
  /\ remainingPagesToken = 0
  /\ loadMoreToken = 0
  /\ isFetchingBackground = FALSE
  /\ fetchingDelivered = FALSE
  /\ fetchingListeners = {}
  /\ fetchingSeen = [l \in ListenerIds |-> <<>>]
  /\ lastNotified = NoNotify
  /\ listeners = <<>>
  /\ listenerCalls = <<>>
  /\ isLoaded = FALSE
  /\ isLoading = FALSE
  /\ loader = [c \in 1..MaxLoaders |-> IdleLoader]
  /\ storageReads = 0
  /\ queue = [k \in Keys |-> [callers |-> 0, execs |-> 0]]
  /\ task = [k \in Keys |-> IdleTask]
  /\ bg = [i \in 1..MaxBg |-> IdleBg]
  /\ lm = IdleLm
  /\ merge = NoMerge
  /\ event = NoEvent

\* The state after construction with nothing persisted, but for the remote
\* data source and lastCacheUpdateTime.
InitCoordinator ==
  /\ store = [m \in Meetings |-> 0]
  /\ index = <<>>
  /\ metadata = 0
  /\ NoRecords
  /\ InitMemory
  /\ NoView

Init ==
  /\ numMeetings \in RemoteSizes
  /\ lastCacheUpdateTime = 0
  /\ InitCoordinator

\* isCacheStale() at time t
IsCacheStaleEager(last, t) ==
  IF last = 0 THEN TRUE ELSE t - last >= CACHE_STALE_THRESHOLD

IsCacheStale(last, t) ==
  IF last = 0 THEN TRUE ELSE t - last > CACHE_STALE_THRESHOLD

\* The key fetchAndCache enqueues its first-page task under.
FetchRequestKeyPerOption(filter, force) ==
  [filter |-> filter, extra |-> IF force THEN "force" ELSE "lazy"]

FetchRequestKey(filter, force) == [filter |-> filter, extra |-> ""]

\* cacheApiResults: the hash of a batch, the sorted ids joined.
DataHash(batch) == SortIds(batch)

\* cacheApiResults returns without writing: same hash, or a merge in progress.
CacheApiResultsSkipsHashOnly(batch) == lastApiDataHash = DataHash(batch)

CacheApiResultsSkips(batch) ==
  \/ lastApiDataHash = DataHash(batch)
  \/ isCaching

mergeVars == << isCaching, lastApiDataHash, merge >>

\* -------------------------------------------------------- fetchAndCache

HasFreeSlot == \E i \in 1..MaxBg : bg[i].pc = "idle"
FreeSlot ==
  CHOOSE i \in 1..MaxBg :
    bg[i].pc = "idle" /\ \A j \in 1..(i - 1) : bg[j].pc # "idle"

\* fetchRemainingPages up to its first await: the token is captured, the
\* fetching flag raised and the progress toast requested.
SpawnRemainingPages(f, startCursor, alreadyCached) ==
  [bg EXCEPT ![FreeSlot] =
     [pc |-> "toast", filter |-> f, startCursor |-> startCursor,
      already |-> alreadyCached, token |-> remainingPagesToken,
      cursor |-> startCursor, items |-> <<>>, pageNum |-> 0, meta |-> 0,
      stopSeen |-> FALSE, wrote |-> FALSE]]

\* The cooldown guard of fetchAndCache.
InCooldownForced(force, last, t) == t - last < FETCH_COOLDOWN

InCooldown(force, last, t) == ~force /\ t - last < FETCH_COOLDOWN

\* fetchAndCache(filter, {force}) up to `await globalQueue.enqueue(...)`.
FetchAndCacheCall(f, force) ==
  /\ ops < MaxOps
  /\ ops' = ops + 1
  /\ IF InCooldown(force, lastFetchTime, now)
     THEN /\ event' = Ev(IF force THEN "fetch-forced" ELSE "fetch",
                         FetchRequestKey(f, force), FALSE, cachedMeetings)
          /\ UNCHANGED << lastApiDataHash, lastFetchTime, queue, task >>
     ELSE LET key == FetchRequestKey(f, force) IN
          /\ queue[key].callers < MaxCallers
          /\ lastApiDataHash' = IF force THEN NoHash ELSE lastApiDataHash
          /\ lastFetchTime' = now
          /\ queue' = Enqueue(queue, key)
          /\ task' = IF task[key].pc = "idle"
                     THEN [task EXCEPT ![key] = [IdleTask EXCEPT !.pc = "net"]]
                     ELSE task
          /\ event' = Ev(IF force THEN "fetch-forced" ELSE "fetch", key,
                         TRUE, {})
  /\ UNCHANGED << numMeetings, loadVars, calledVars, now, storeVars, cachedMeetings, isCaching,
                  lastCacheUpdateTime, nextCursor, hasMoreMeetings,
                  isLoadingMore, remainingPagesToken, loadMoreToken,
                  fetchVars, notifyVars, bg, lm, merge >>

\* fetchAndCache called by anything but the hook.
FetchAndCache(f, force) ==
  FetchAndCacheCall(f, force) /\ UNCHANGED hook

\* refreshCache(filter) from the moment its progress toast is shown up to the
\* `await globalQueue.enqueue(...)` of the forced fetchAndCache it calls.  What
\* follows the fetch (the toast, showContextualError and the rethrow) changes
\* nothing of the coordinator.
RefreshCacheCall(f) ==
  LET key == FetchRequestKey(f, TRUE) IN
  /\ ops < MaxOps
  /\ ops' = ops + 1
  /\ queue[key].callers < MaxCallers
  /\ lastApiDataHash' = NoHash
  /\ nextCursor' = NoCursor
  /\ hasMoreMeetings' = TRUE
  /\ lastFetchTime' = now
  /\ queue' = Enqueue(queue, key)
  /\ task' = IF task[key].pc = "idle"
             THEN [task EXCEPT ![key] =
                     [IdleTask EXCEPT !.pc = "net", !.refresh = TRUE]]
             ELSE [task EXCEPT ![key].refresh = TRUE]
  /\ event' = Ev("refresh", key, TRUE, {})
  /\ UNCHANGED << numMeetings, loadVars, calledVars, now, storeVars, cachedMeetings, isCaching,
                  lastCacheUpdateTime, isLoadingMore, remainingPagesToken,
                  loadMoreToken, fetchVars, notifyVars, bg, lm,
                  merge >>

\* refreshCache called by anything but the hook.
RefreshCache(f) ==
  RefreshCacheCall(f) /\ UNCHANGED hook

\* The first-page task after `await this.cacheApiResults(firstPageMeetings)`:
\* with a cursor the background loop is started and the task returns page 1;
\* without one the cache is marked complete and the metadata written.
FirstPageCached(key, items, cursor, cm) ==
  IF cursor # NoCursor
  THEN /\ HasFreeSlot
       /\ nextCursor' = cursor
       /\ hasMoreMeetings' = TRUE
       /\ bg' = SpawnRemainingPages(key.filter, cursor, items)
       /\ SetFetchingBackground(TRUE)
       /\ task' = [task EXCEPT ![key] = IdleTask]
       /\ event' = SettleEv(key, TRUE, Range(items))
       /\ queue' = Dequeue(queue, key)
       /\ UNCHANGED lastCacheUpdateTime
  ELSE /\ nextCursor' = NoCursor
       /\ hasMoreMeetings' = FALSE
       /\ lastCacheUpdateTime' = now
       /\ task' = [task EXCEPT ![key] =
                     [pc |-> "meta", items |-> items, cursor |-> cursor,
                      meta |-> UpdateCacheMetadataFromMeetings(cm, now),
                      refresh |-> task[key].refresh]]
       /\ event' = NoEvent
       /\ UNCHANGED << queue, bg, fetchVars >>

\* listMeetings(filter) answers: cacheApiResults starts, or skips.
FirstPageResponse(key) ==
  /\ task[key].pc = "net"
  /\ LET page == ListMeetings(key.filter, NoCursor, numMeetings) IN
     IF CacheApiResultsSkips(page.items)
     THEN /\ FirstPageCached(key, page.items, page.nextCursor, cachedMeetings)
          /\ UNCHANGED mergeVars
     ELSE /\ isCaching' = TRUE
          /\ lastApiDataHash' = DataHash(page.items)
          /\ merge' = [pc |-> "write", kind |-> "task", key |-> key,
                       slot |-> 0, batch |-> page.items]
          /\ task' = [task EXCEPT ![key] =
                        [pc |-> "merge", items |-> page.items,
                         cursor |-> page.nextCursor, meta |-> 0,
                         refresh |-> task[key].refresh]]
          /\ event' = NoEvent
          /\ UNCHANGED << nextCursor, hasMoreMeetings, lastCacheUpdateTime,
                          queue, bg, fetchVars >>
  /\ UNCHANGED << numMeetings, restVars, now, ops, storeVars, cachedMeetings, lastFetchTime,
                  isLoadingMore, remainingPagesToken, loadMoreToken,
                  notifyVars, lm >>

\* The task throws: every caller waiting on the key is rejected.
RejectTaskResolves(key) ==
  /\ task' = [task EXCEPT ![key] = IdleTask]
  /\ event' = SettleEv(key, TRUE, {})
  /\ queue' = Dequeue(queue, key)

RejectTask(key) ==
  /\ task' = [task EXCEPT ![key] = IdleTask]
  /\ event' = SettleEv(key, FALSE, {})
  /\ queue' = Dequeue(queue, key)

\* listMeetings(filter) fails.
FirstPageFail(key) ==
  /\ task[key].pc = "net"
  /\ ops < MaxOps
  /\ ops' = ops + 1
  /\ RejectTask(key)
  /\ UNCHANGED << numMeetings, restVars, now, storeVars, coordVars, bg, lm, merge >>

\* updateCacheMetadataFromMeetings is done: the task returns page 1.
FirstPageMeta(key) ==
  /\ task[key].pc = "meta"
  /\ metadata' = task[key].meta
  /\ task' = [task EXCEPT ![key] = IdleTask]
  /\ event' = SettleEv(key, TRUE, Range(task[key].items))
  /\ queue' = Dequeue(queue, key)
  /\ UNCHANGED << numMeetings, restVars, now, ops, store, index, coordVars, bg, lm, merge >>

\* --------------------------------------------------- fetchRemainingPages

FilterKey(f) == [filter |-> f, extra |-> ""]

\* The `finally` of fetchRemainingPages, and the end of the loop.
BgFinishKeepsFlag(i, type, ok) ==
  /\ UNCHANGED fetchVars
  /\ bg' = [bg EXCEPT ![i] = IdleBg]
  /\ event' = Ev(type, FilterKey(bg[i].filter), ok,
                 Range(bg[i].already \o bg[i].items))

BgFinishRejects(i, type, ok) ==
  /\ SetFetchingBackground(
       IF remainingPagesToken = bg[i].token THEN FALSE ELSE isFetchingBackground)
  /\ bg' = [bg EXCEPT ![i] = IdleBg]
  /\ event' = Ev(type, FilterKey(bg[i].filter), FALSE,
                 Range(bg[i].already \o bg[i].items))

BgFinish(i, type, ok) ==
  /\ SetFetchingBackground(
       IF remainingPagesToken = bg[i].token THEN FALSE ELSE isFetchingBackground)
  /\ bg' = [bg EXCEPT ![i] = IdleBg]
  /\ event' = Ev(type, FilterKey(bg[i].filter), ok,
                 Range(bg[i].already \o bg[i].items))

\* hasMoreMeetings after the loop: whether the last page returned a cursor.
HasMoreAlways(cursor) == TRUE

HasMoreAfter(cursor) == cursor # NoCursor

\* The batch the background loop writes.
BackgroundBatch(alreadyCached, additionalMeetings) ==
  alreadyCached \o additionalMeetings

\* while (cursor && pageNum < MAX_BACKGROUND_PAGES)
BgLoopIgnoresCap(b) == b.cursor # NoCursor

BgLoopGoesOn(b) == b.cursor # NoCursor /\ b.pageNum < MAX_BACKGROUND_PAGES

\* The loop of fetchRemainingPages from the top of an iteration, with loop
\* state b: the next page is requested, or the loop is left, the token is
\* checked a last time and cacheApiResults is called with all the pages.
BgContinue(i, b) ==
  IF remainingPagesToken # b.token
  THEN /\ BgFinish(i, "bg-aborted", TRUE)
       /\ UNCHANGED << nextCursor, hasMoreMeetings, lastCacheUpdateTime,
                       mergeVars >>
  ELSE IF BgLoopGoesOn(b)
  THEN /\ bg' = [bg EXCEPT ![i] = [b EXCEPT !.pc = "net", !.pageNum = @ + 1]]
       /\ event' = NoEvent
       /\ UNCHANGED << fetchVars, nextCursor, hasMoreMeetings,
                       lastCacheUpdateTime, mergeVars >>
  ELSE /\ nextCursor' = b.cursor
       /\ hasMoreMeetings' = HasMoreAfter(b.cursor)
       /\ LET all == BackgroundBatch(b.already, b.items) IN
          IF CacheApiResultsSkips(all)
          THEN /\ lastCacheUpdateTime' = now
               /\ bg' = [bg EXCEPT ![i] =
                           [b EXCEPT !.pc = "meta",
                              !.meta = UpdateCacheMetadataFromMeetings(
                                         cachedMeetings, now)]]
               /\ UNCHANGED mergeVars
          ELSE /\ isCaching' = TRUE
               /\ lastApiDataHash' = DataHash(all)
               /\ merge' = [pc |-> "write", kind |-> "bg", key |-> NoKey,
                            slot |-> i, batch |-> all]
               /\ bg' = [bg EXCEPT ![i] = [b EXCEPT !.pc = "merge"]]
               /\ UNCHANGED lastCacheUpdateTime
       /\ event' = NoEvent
       /\ UNCHANGED fetchVars

\* showToast returns: the loop starts.
BgToastShown(i) ==
  /\ bg[i].pc = "toast"
  /\ BgContinue(i, bg[i])
  /\ UNCHANGED << numMeetings, restVars, now, ops, storeVars, cachedMeetings, lastFetchTime,
                  isLoadingMore, remainingPagesToken, loadMoreToken,
                  notifyVars, queue, task, lm >>

\* listMeetings({...filter, cursor}) answers inside the loop.
BgPageResponse(i) ==
  /\ bg[i].pc = "net"
  /\ LET page == ListMeetings(bg[i].filter, bg[i].cursor, numMeetings) IN
     BgContinue(i, [bg[i] EXCEPT !.items = @ \o page.items,
                                 !.cursor = page.nextCursor])
  /\ UNCHANGED << numMeetings, restVars, now, ops, storeVars, cachedMeetings, lastFetchTime,
                  isLoadingMore, remainingPagesToken, loadMoreToken,
                  notifyVars, queue, task, lm >>

\* listMeetings fails inside the loop: the error is logged by the caller's
\* catch, nothing is written.
BgPageFail(i) ==
  /\ bg[i].pc = "net"
  /\ ops < MaxOps
  /\ ops' = ops + 1
  /\ BgFinish(i, "bg-failed", FALSE)
  /\ UNCHANGED << numMeetings, restVars, now, storeVars, cachedMeetings, isCaching, lastApiDataHash,
                  lastFetchTime, lastCacheUpdateTime, nextCursor,
                  hasMoreMeetings, isLoadingMore, remainingPagesToken,
                  loadMoreToken, notifyVars, queue, task, lm, merge >>

\* updateCacheMetadataFromMeetings is done: the loop ends.
BgMeta(i) ==
  /\ bg[i].pc = "meta"
  /\ metadata' = bg[i].meta
  /\ BgFinish(i, "bg-done", TRUE)
  /\ UNCHANGED << numMeetings, restVars, now, ops, store, index, cachedMeetings, isCaching,
                  lastApiDataHash, lastFetchTime, lastCacheUpdateTime,
                  nextCursor, hasMoreMeetings, isLoadingMore,
                  remainingPagesToken, loadMoreToken, notifyVars, queue,
                  task, lm, merge >>

\* ------------------------------------------------------ loadMoreMeetings

\* loadMoreMeetings(filter) up to the task's first await.  The task is
\* enqueued under `load-more-meetings:${cursor}:${filter}`; that key is never
\* in flight here, because isLoadingMore is true while its task runs.
\* if (!this.hasMoreMeetings || !this.nextCursor)
NothingToLoadNever(hasMore, cursor) == FALSE

NothingToLoad(hasMore, cursor) == ~hasMore \/ cursor = NoCursor

LoadMoreMeetingsCall(f) ==
  /\ ops < MaxOps
  /\ ops' = ops + 1
  /\ IF isLoadingMore
     THEN /\ event' = Ev("lm-busy", FilterKey(f), TRUE, {})
          /\ UNCHANGED << lm, loadMoreToken, isLoadingMore,
                          fetchVars >>
     ELSE IF NothingToLoad(hasMoreMeetings, nextCursor)
     THEN /\ event' = Ev("lm-none", FilterKey(f), TRUE, {})
          /\ UNCHANGED << lm, loadMoreToken, isLoadingMore,
                          fetchVars >>
     ELSE /\ loadMoreToken' = loadMoreToken + 1
          /\ lm' = [pc |-> "toast", filter |-> f, startCursor |-> nextCursor,
                    token |-> loadMoreToken + 1, cursor |-> nextCursor,
                    items |-> <<>>, pageNum |-> 0, meta |-> 0,
                    stopSeen |-> FALSE, wrote |-> FALSE]
          /\ isLoadingMore' = TRUE
          /\ SetFetchingBackground(TRUE)
          /\ event' = NoEvent
  /\ UNCHANGED << numMeetings, loadVars, calledVars, now, storeVars, cachedMeetings, isCaching, lastApiDataHash,
                  lastFetchTime, lastCacheUpdateTime, nextCursor,
                  hasMoreMeetings, remainingPagesToken, notifyVars, queue,
                  task, bg, merge >>

\* loadMoreMeetings called by anything but the hook.
LoadMoreMeetings(f) ==
  LoadMoreMeetingsCall(f) /\ UNCHANGED hook

\* The `finally` of the load-more task, and its end.
LmFinish(type, ok) ==
  /\ isLoadingMore' = FALSE
  /\ SetFetchingBackground(
       IF loadMoreToken = lm.token THEN FALSE ELSE isFetchingBackground)
  /\ lm' = IdleLm
  /\ event' = Ev(type, FilterKey(lm.filter), ok, Range(lm.items))

\* The loop of the load-more task from the top of an iteration.
LmContinue(b) ==
  IF loadMoreToken # b.token
  THEN /\ LmFinish("lm-aborted", TRUE)
       /\ UNCHANGED << nextCursor, hasMoreMeetings, lastCacheUpdateTime,
                       mergeVars >>
  ELSE IF b.cursor # NoCursor /\ b.pageNum < MAX_PAGES
  THEN /\ lm' = [b EXCEPT !.pc = "net", !.pageNum = @ + 1]
       /\ event' = NoEvent
       /\ UNCHANGED << isLoadingMore, fetchVars, nextCursor,
                       hasMoreMeetings, lastCacheUpdateTime, mergeVars >>
  ELSE /\ nextCursor' = b.cursor
       /\ hasMoreMeetings' = HasMoreAfter(b.cursor)
       /\ IF CacheApiResultsSkips(b.items)
          THEN /\ lastCacheUpdateTime' = now
               /\ lm' = [b EXCEPT !.pc = "meta",
                           !.meta = UpdateCacheMetadataFromMeetings(
                                      cachedMeetings, now)]
               /\ UNCHANGED mergeVars
          ELSE /\ isCaching' = TRUE
               /\ lastApiDataHash' = DataHash(b.items)
               /\ merge' = [pc |-> "write", kind |-> "lm", key |-> NoKey,
                            slot |-> 0, batch |-> b.items]
               /\ lm' = [b EXCEPT !.pc = "merge"]
               /\ UNCHANGED lastCacheUpdateTime
       /\ event' = NoEvent
       /\ UNCHANGED << isLoadingMore, fetchVars >>

LmToastShown ==
  /\ lm.pc = "toast"
  /\ LmContinue(lm)
  /\ UNCHANGED << numMeetings, restVars, now, ops, storeVars, cachedMeetings, lastFetchTime,
                  remainingPagesToken, loadMoreToken, notifyVars, queue,
                  task, bg >>

LmPageResponse ==
  /\ lm.pc = "net"
  /\ LET page == ListMeetings(lm.filter, lm.cursor, numMeetings) IN
     LmContinue([lm EXCEPT !.items = @ \o page.items,
                           !.cursor = page.nextCursor])
  /\ UNCHANGED << numMeetings, restVars, now, ops, storeVars, cachedMeetings, lastFetchTime,
                  remainingPagesToken, loadMoreToken, notifyVars, queue,
                  task, bg >>

\* listMeetings fails inside the load-more loop: showContextualError is
\* awaited before the error is rethrown.
LmPageFail ==
  /\ lm.pc = "net"
  /\ ops < MaxOps
  /\ ops' = ops + 1
  /\ lm' = [lm EXCEPT !.pc = "error"]
  /\ event' = NoEvent
  /\ UNCHANGED << numMeetings, restVars, now, storeVars, coordVars, queue, task, bg, merge >>

\* showContextualError returns: loadMoreMeetings rejects.
LmErrorShown ==
  /\ lm.pc = "error"
  /\ LmFinish("lm-failed", FALSE)
  /\ UNCHANGED << numMeetings, restVars, now, ops, storeVars, cachedMeetings, isCaching,
                  lastApiDataHash, lastFetchTime, lastCacheUpdateTime,
                  nextCursor, hasMoreMeetings, remainingPagesToken,
                  loadMoreToken, notifyVars, queue, task, bg, merge >>

LmMeta ==
  /\ lm.pc = "meta"
  /\ metadata' = lm.meta
  /\ LmFinish("lm-done", TRUE)
  /\ UNCHANGED << numMeetings, restVars, now, ops, store, index, cachedMeetings, isCaching,
                  lastApiDataHash, lastFetchTime, lastCacheUpdateTime,
                  nextCursor, hasMoreMeetings, remainingPagesToken,
                  loadMoreToken, notifyVars, queue, task, bg, merge >>

\* ------------------------------------------------------- cacheApiResults

\* cacheMeetingsBatch is done: the records and the index are written.
MergeWrite ==
  /\ merge.pc = "write"
  /\ store' = CacheMeetingsBatch(store, merge.batch, now)
  /\ index' = UpdateMeetingIndexBatch(index, merge.batch)
  /\ merge' = [merge EXCEPT !.pc = "reload"]
  /\ bg' = IF merge.kind = "bg"
           THEN [bg EXCEPT ![merge.slot].wrote = TRUE] ELSE bg
  /\ lm' = IF merge.kind = "lm" THEN [lm EXCEPT !.wrote = TRUE] ELSE lm
  /\ event' = NoEvent
  /\ UNCHANGED << numMeetings, restVars, now, ops, metadata, coordVars, queue, task >>

\* The records of a batch that are written when the setItem of record
\* `failed` rejects: Promise.all rejects, the other writes are not undone.
WrittenDespite(batch, failed) == SelectSeq(batch, LAMBDA m : m # failed)

\* cacheMeetingsBatch rejects (a LocalStorage write fails) before the index
\* is updated: the `finally` clears isCaching and the error reaches the
\* caller of cacheApiResults.
MergeWriteFail ==
  /\ merge.pc = "write"
  /\ ops < MaxOps
  /\ ops' = ops + 1
  /\ \E failed \in Range(merge.batch) :
       store' = CacheMeetingsBatch(store, WrittenDespite(merge.batch, failed),
                                   now)
  /\ isCaching' = FALSE
  /\ merge' = NoMerge
  /\ CASE merge.kind = "task" ->
            /\ RejectTask(merge.key)
            /\ UNCHANGED << bg, lm, fetchVars >>
       [] merge.kind = "bg" ->
            /\ BgFinish(merge.slot, "bg-failed", FALSE)
            /\ UNCHANGED << queue, task, lm >>
       [] merge.kind = "lm" ->
            /\ lm' = [lm EXCEPT !.pc = "error"]
            /\ event' = NoEvent
            /\ UNCHANGED << queue, task, bg, fetchVars >>
  /\ UNCHANGED << numMeetings, restVars, now, index, metadata, cachedMeetings,
                  lastApiDataHash, lastFetchTime, lastCacheUpdateTime,
                  nextCursor, hasMoreMeetings, isLoadingMore,
                  remainingPagesToken, loadMoreToken, notifyVars >>

\* pruneCache and getAllCachedMeetings are done: the in-memory set is
\* replaced, the listeners are notified, and the caller continues.
MergeReload ==
  /\ merge.pc = "reload"
  /\ store' = PruneCacheStore(store, CACHE_SIZE, now)
  /\ index' = PruneCacheIndex(store, index, CACHE_SIZE, now)
  /\ cachedMeetings' = GetAllCachedMeetings(store', now)
  /\ NotifyListeners(cachedMeetings')
  /\ isCaching' = FALSE
  /\ merge' = NoMerge
  /\ CASE merge.kind = "task" ->
            /\ FirstPageCached(merge.key, task[merge.key].items,
                               task[merge.key].cursor, cachedMeetings')
            /\ UNCHANGED lm
       [] merge.kind = "bg" ->
            /\ lastCacheUpdateTime' = now
            /\ bg' = [bg EXCEPT ![merge.slot].pc = "meta",
                                ![merge.slot].meta =
                                  UpdateCacheMetadataFromMeetings(
                                    cachedMeetings', now)]
            /\ event' = NoEvent
            /\ UNCHANGED << nextCursor, hasMoreMeetings, queue, task, lm,
                            fetchVars >>
       [] merge.kind = "lm" ->
            /\ lastCacheUpdateTime' = now
            /\ lm' = [lm EXCEPT !.pc = "meta",
                                !.meta = UpdateCacheMetadataFromMeetings(
                                           cachedMeetings', now)]
            /\ event' = NoEvent
            /\ UNCHANGED << nextCursor, hasMoreMeetings, queue, task, bg,
                            fetchVars >>
  /\ UNCHANGED << numMeetings, restVars, now, ops, metadata, lastApiDataHash, lastFetchTime,
                  isLoadingMore, remainingPagesToken, loadMoreToken >>

\* ---------------------------------------------------- stopBackgroundFetch

\* A loop that has not yet passed its final token check.
BeforeFinalWrite(b) == b.pc \in {"toast", "net"}

\* The tokens after stopBackgroundFetch acts.
StoppedRemainingPagesToken(t) == t + 1
StoppedLoadMoreTokenKept(t) == t

StoppedLoadMoreToken(t) == t + 1

StopBackgroundFetch ==
  /\ ops < MaxOps
  /\ ops' = ops + 1
  /\ bg' = [i \in 1..MaxBg |->
              IF BeforeFinalWrite(bg[i])
              THEN [bg[i] EXCEPT !.stopSeen = TRUE] ELSE bg[i]]
  /\ lm' = IF BeforeFinalWrite(lm) THEN [lm EXCEPT !.stopSeen = TRUE] ELSE lm
  /\ IF ~isFetchingBackground
     THEN UNCHANGED << remainingPagesToken, loadMoreToken,
                       fetchVars >>
     ELSE /\ remainingPagesToken' = StoppedRemainingPagesToken(remainingPagesToken)
          /\ loadMoreToken' = StoppedLoadMoreToken(loadMoreToken)
          /\ SetFetchingBackground(FALSE)
  /\ event' = Ev("stop", NoKey, isFetchingBackground, {})
  /\ UNCHANGED << numMeetings, restVars, now, storeVars, cachedMeetings, isCaching, lastApiDataHash,
                  lastFetchTime, lastCacheUpdateTime, nextCursor,
                  hasMoreMeetings, isLoadingMore, notifyVars, queue, task,
                  merge >>

\* ------------------------------------------------------------------ time

TickSteps == { FETCH_COOLDOWN }

Tick(d) ==
  /\ ops < MaxOps
  /\ ops' = ops + 1
  /\ now' = now + d
  /\ event' = NoEvent
  /\ UNCHANGED << numMeetings, restVars, storeVars, coordVars, procVars >>

\* --------------------------------------------------------- specification

Next ==
  \/ \E f \in Filters, force \in BOOLEAN : FetchAndCache(f, force)
  \/ \E f \in Filters : RefreshCache(f)
  \/ \E k \in Keys : FirstPageResponse(k)
  \/ \E k \in Keys : FirstPageFail(k)
  \/ \E k \in Keys : FirstPageMeta(k)
  \/ \E i \in 1..MaxBg : BgToastShown(i)
  \/ \E i \in 1..MaxBg : BgPageResponse(i)
  \/ \E i \in 1..MaxBg : BgPageFail(i)
  \/ \E i \in 1..MaxBg : BgMeta(i)
  \/ \E f \in Filters : LoadMoreMeetings(f)
  \/ LmToastShown
  \/ LmPageResponse
  \/ LmPageFail
  \/ LmErrorShown
  \/ LmMeta
  \/ MergeWrite
  \/ MergeWriteFail
  \/ MergeReload
  \/ StopBackgroundFetch
  \/ \E d \in TickSteps : Tick(d)

Spec == Init /\ [][Next]_vars

\* Every I/O the program waits for completes: a toast is shown, a request is
\* answered (or fails), a storage operation ends.
Completions ==
  \/ \E k \in Keys : FirstPageResponse(k)
  \/ \E k \in Keys : FirstPageMeta(k)
  \/ \E i \in 1..MaxBg : BgToastShown(i)
  \/ \E i \in 1..MaxBg : BgPageResponse(i)
  \/ \E i \in 1..MaxBg : BgMeta(i)
  \/ LmToastShown
  \/ LmPageResponse
  \/ LmErrorShown
  \/ LmMeta
  \/ MergeWrite
  \/ MergeReload

\* The calls and faults that start, stop and break the loops, for one filter.
NextLive ==
  \/ FetchAndCache("all", TRUE)
  \/ LoadMoreMeetings("all")
  \/ StopBackgroundFetch
  \/ \E i \in 1..MaxBg : BgPageFail(i)
  \/ LmPageFail
  \/ Completions

\* The remote data source holds one page, or three.
LiveSizes == { 1, 3 }

InitLive ==
  /\ numMeetings \in LiveSizes
  /\ lastCacheUpdateTime = 0
  /\ InitCoordinator

SpecLive == InitLive /\ [][NextLive]_vars /\ WF_vars(Completions)

\* ------------------------------------------------- isCacheStale, alone

\* An observer calls isCacheStale(): the event carries what it returned.
IsCacheStaleCall ==
  /\ event' = Ev("isCacheStale", NoKey,
                 IsCacheStale(lastCacheUpdateTime, now), {})
  /\ UNCHANGED << numMeetings, restVars, now, ops, storeVars, coordVars, procVars >>

\* Clock steps around the staleness threshold.
StaleTickSteps == { 1, CACHE_STALE_THRESHOLD - 1 }

\* The last successful fetch time a coordinator may hold when observed: none,
\* or one of these ages before the start.
StaleAges == { 0, 1, CACHE_STALE_THRESHOLD - 1, CACHE_STALE_THRESHOLD,
               CACHE_STALE_THRESHOLD + 1 }

InitStale ==
  /\ numMeetings = MaxMeetings
  /\ lastCacheUpdateTime \in {0} \cup { T0 - a : a \in StaleAges }
  /\ InitCoordinator

NextStale ==
  \/ IsCacheStaleCall
  \/ \E d \in StaleTickSteps : Tick(d)

SpecStale == InitStale /\ [][NextStale]_vars

\* ------------------------------------------------------------- loadCache

\* maxWaitTime
MAX_WAIT_TIME == 30

\* What a loadCache call returns.
LoadReturns(c, type, ok, result) ==
  /\ loader' = [loader EXCEPT ![c] = IdleLoader]
  /\ event' = Ev(type, NoKey, ok, result)

\* loadCache() up to its first await: it returns the in-memory set when the
\* cache is loaded, starts to wait when a load is in progress, and else
\* starts the load.
LoadCacheStart(c) ==
  /\ loader[c].pc = "idle"
  /\ ops < MaxOps
  /\ ops' = ops + 1
  /\ IF isLoaded
     THEN /\ LoadReturns(c, "loadCache", TRUE, cachedMeetings)
          /\ UNCHANGED isLoading
     ELSE IF isLoading
     THEN /\ loader' = [loader EXCEPT ![c] =
                          [pc |-> "wait", startTime |-> now, cached |-> {}]]
          /\ event' = NoEvent
          /\ UNCHANGED isLoading
     ELSE /\ isLoading' = TRUE
          /\ loader' = [loader EXCEPT ![c] = [IdleLoader EXCEPT !.pc = "read"]]
          /\ event' = NoEvent

\* A loadCache call of its own.
LoadCache(c) ==
  /\ LoadCacheStart(c)
  /\ UNCHANGED << numMeetings, recordVars, viewVars, now, storeVars, coordVars,
                  procVars, isLoaded, storageReads >>

\* getAllCachedMeetings() is done: the in-memory set is replaced and the
\* cache marked loaded; getCacheMetadata() is awaited next.
LoadRead(c) ==
  /\ loader[c].pc = "read"
  /\ cachedMeetings' = GetAllCachedMeetings(store, now)
  /\ isLoaded' = TRUE
  /\ storageReads' = storageReads + 1
  /\ loader' = [loader EXCEPT ![c] =
                  [pc |-> "meta", startTime |-> 0, cached |-> cachedMeetings']]
  /\ event' = NoEvent
  /\ UNCHANGED << numMeetings, recordVars, viewVars, now, ops, storeVars, isCaching, lastApiDataHash,
                  lastFetchTime, lastCacheUpdateTime, nextCursor,
                  hasMoreMeetings, isLoadingMore, remainingPagesToken,
                  loadMoreToken, fetchVars, notifyVars, procVars, isLoading >>

\* loadCache without the restoring of lastCacheUpdateTime.
RestoredNever(last, meta) == last

\* lastCacheUpdateTime after getCacheMetadata() returned meta (0: null).
Restored(last, meta) == IF meta # 0 THEN meta ELSE last

\* getCacheMetadata() is done: the update time is restored, the listeners
\* are notified, the records read are returned and the `finally` clears
\* isLoading.
LoadMeta(c) ==
  /\ loader[c].pc = "meta"
  /\ lastCacheUpdateTime' = Restored(lastCacheUpdateTime, metadata)
  /\ NotifyListeners(cachedMeetings)
  /\ isLoading' = FALSE
  /\ LoadReturns(c, "loadCache", TRUE, loader[c].cached)
  /\ UNCHANGED << numMeetings, recordVars, viewVars, now, ops, storeVars, cachedMeetings, isCaching,
                  lastApiDataHash, lastFetchTime, nextCursor, hasMoreMeetings,
                  isLoadingMore, remainingPagesToken, loadMoreToken, fetchVars,
                  procVars, isLoaded, storageReads >>

\* if (Date.now() - startTime > maxWaitTime)
WaitedTooLong(startTime, t) == t - startTime > MAX_WAIT_TIME

\* A 50 ms timer of the wait loop fires and the loop ends: the load is no
\* longer in progress, or the wait has lasted too long.
LoadPoll(c) ==
  /\ loader[c].pc = "wait"
  /\ IF ~isLoading
     THEN /\ LoadReturns(c, "loadCache", TRUE, cachedMeetings)
          /\ UNCHANGED isLoading
     ELSE /\ WaitedTooLong(loader[c].startTime, now)
          /\ isLoading' = FALSE
          /\ LoadReturns(c, "loadCache-timeout", FALSE, {})
  /\ UNCHANGED << numMeetings, recordVars, viewVars, now, ops, storeVars, coordVars, procVars,
                  isLoaded, storageReads >>

\* Clock steps around the longest wait.
WaitTickSteps == { MAX_WAIT_TIME, MAX_WAIT_TIME + 1 }

\* Time passes while a caller waits for the load.
WaitElapses(d) ==
  /\ \E c \in 1..MaxLoaders :
       /\ loader[c].pc = "wait"
       /\ ~WaitedTooLong(loader[c].startTime, now)
  /\ now' = now + d
  /\ event' = NoEvent
  /\ UNCHANGED << numMeetings, ops, storeVars, coordVars, procVars, restVars >>

\* What an earlier session may have persisted: nothing, or two records and
\* the time of the last update, one of these ages before the start.
PersistedAges == { 60, 2 * CACHE_STALE_THRESHOLD }

InitLoad ==
  /\ numMeetings = 2
  /\ lastCacheUpdateTime = 0
  /\ \/ /\ store = [m \in Meetings |-> 0]
        /\ index = <<>>
        /\ metadata = 0
     \/ \E a \in PersistedAges :
          /\ store = [m \in Meetings |-> IF m <= 2 THEN T0 - a ELSE 0]
          /\ index = << 1, 2 >>
          /\ metadata \in { 0, T0 - a }
  /\ NoRecords
  /\ InitMemory
  /\ NoView

NextLoad ==
  \/ \E c \in 1..MaxLoaders : LoadCache(c)
  \/ \E c \in 1..MaxLoaders : LoadRead(c)
  \/ \E c \in 1..MaxLoaders : LoadMeta(c)
  \/ \E c \in 1..MaxLoaders : LoadPoll(c)
  \/ \E d \in WaitTickSteps : WaitElapses(d)

\* The timers of the wait loop fire and the clock advances; the storage
\* reads of the load may never complete.
SpecLoad ==
  /\ InitLoad
  /\ [][NextLoad]_vars
  /\ \A c \in 1..MaxLoaders : WF_vars(LoadPoll(c))
  /\ WF_vars(\E d \in WaitTickSteps : WaitElapses(d))

\* --------------------------------------------------------- subscriptions

\* subscribe(listener): the listener is added and, when the cache is loaded,
\* called at once with the in-memory set.
Subscribe(l) ==
  /\ l \notin Range(listeners)
  /\ listeners' = Append(listeners, l)
  /\ listenerCalls' = IF isLoaded THEN << Call(l, cachedMeetings) >> ELSE <<>>
  /\ event' = NoEvent
  /\ UNCHANGED << numMeetings, now, ops, storeVars, cachedMeetings, isCaching,
                  lastApiDataHash, lastFetchTime, lastCacheUpdateTime,
                  nextCursor, hasMoreMeetings, isLoadingMore,
                  remainingPagesToken, loadMoreToken, fetchVars, lastNotified,
                  procVars, restVars >>

\* The function subscribe returned is called: this.listeners.delete(listener)
Unsubscribe(l) ==
  /\ l \in Range(listeners)
  /\ listeners' = SelectSeq(listeners, LAMBDA x : x # l)
  /\ listenerCalls' = <<>>
  /\ event' = NoEvent
  /\ UNCHANGED << numMeetings, now, ops, storeVars, cachedMeetings, isCaching,
                  lastApiDataHash, lastFetchTime, lastCacheUpdateTime,
                  nextCursor, hasMoreMeetings, isLoadingMore,
                  remainingPagesToken, loadMoreToken, fetchVars, lastNotified,
                  procVars, restVars >>

\* subscribeFetching(listener): the listener is added and called at once
\* with the current flag.
SubscribeFetching(l) ==
  /\ l \notin fetchingListeners
  /\ fetchingListeners' = fetchingListeners \cup { l }
  /\ fetchingSeen' = [fetchingSeen EXCEPT ![l] = << isFetchingBackground >>]
  /\ event' = NoEvent
  /\ UNCHANGED << numMeetings, now, ops, storeVars, cachedMeetings, isCaching,
                  lastApiDataHash, lastFetchTime, lastCacheUpdateTime,
                  nextCursor, hasMoreMeetings, isLoadingMore,
                  remainingPagesToken, loadMoreToken, isFetchingBackground,
                  fetchingDelivered, notifyVars, procVars, restVars >>

\* The function subscribeFetching returned is called.
UnsubscribeFetching(l) ==
  /\ l \in fetchingListeners
  /\ fetchingListeners' = fetchingListeners \ { l }
  /\ fetchingSeen' = [fetchingSeen EXCEPT ![l] = <<>>]
  /\ event' = NoEvent
  /\ UNCHANGED << numMeetings, now, ops, storeVars, cachedMeetings, isCaching,
                  lastApiDataHash, lastFetchTime, lastCacheUpdateTime,
                  nextCursor, hasMoreMeetings, isLoadingMore,
                  remainingPagesToken, loadMoreToken, isFetchingBackground,
                  fetchingDelivered, notifyVars, procVars, restVars >>

\* A view is mounted and unmounted while the cache is loaded and fetched:
\* an earlier session persisted nothing, or one record.
InitSub ==
  /\ numMeetings = 2
  /\ lastCacheUpdateTime = 0
  /\ \/ /\ store = [m \in Meetings |-> 0]
        /\ index = <<>>
        /\ metadata = 0
     \/ /\ store = [m \in Meetings |-> IF m = 1 THEN T0 - 60 ELSE 0]
        /\ index = << 1 >>
        /\ metadata = T0 - 60
  /\ NoRecords
  /\ InitMemory
  /\ NoView

NextSub ==
  \/ \E l \in ListenerIds : Subscribe(l)
  \/ \E l \in ListenerIds : Unsubscribe(l)
  \/ LoadCache(1)
  \/ LoadRead(1)
  \/ LoadMeta(1)
  \/ FetchAndCache("all", TRUE)
  \/ FirstPageResponse(FilterKey("all"))
  \/ \E i \in 1..MaxBg : BgToastShown(i)
  \/ \E i \in 1..MaxBg : BgPageResponse(i)
  \/ \E i \in 1..MaxBg : BgMeta(i)
  \/ MergeWrite
  \/ MergeWriteFail
  \/ MergeReload

SpecSub == InitSub /\ [][NextSub]_vars

\* The fetching flag is observed while loops start, end and are stopped.
NextFetching ==
  \/ \E l \in ListenerIds : SubscribeFetching(l)
  \/ \E l \in ListenerIds : UnsubscribeFetching(l)
  \/ NextLive

SpecFetching == InitLive /\ [][NextFetching]_vars

\* ------------------------------------------------- the Record Cache in full

\* The coordinator specifications above keep, of a stored record, its
\* cachedAt.  Here a stored entry is the JSON text cacheMeetingsBatch writes,
\* with every field.  An optional field of a record in memory is a set:
\* empty when the field is undefined, else holding its value.

OptionalFields == { "summary", "transcript", "actionItems" }

\* generateHash(meetingId)
GenerateHash(meetingId) == << "sha256", meetingId >>

\* The CachedMeetingData cacheMeetingsBatch builds for one incoming record.
CachedMeetingData(r, t) ==
  [meeting |-> r.meeting, summary |-> r.summary, transcript |-> r.transcript,
   actionItems |-> r.actionItems, cachedAt |-> t,
   hash |-> GenerateHash(r.meetingId)]

\* JSON.stringify(cached): a key whose value is undefined is left out.
Stringify(c) ==
  LET present == { k \in OptionalFields : c[k] # {} } IN
  [k \in { "meeting", "cachedAt", "hash" } \cup present |->
     IF k \in present THEN CHOOSE v \in c[k] : TRUE ELSE c[k]]

\* JSON.parse(value) as CachedMeetingData: a key left out reads undefined.
Parse(j) ==
  [meeting |-> j["meeting"], cachedAt |-> j["cachedAt"], hash |-> j["hash"],
   summary |-> IF "summary" \in DOMAIN j THEN { j["summary"] } ELSE {},
   transcript |-> IF "transcript" \in DOMAIN j THEN { j["transcript"] } ELSE {},
   actionItems |->
     IF "actionItems" \in DOMAIN j THEN { j["actionItems"] } ELSE {}]

\* The setItem calls of cacheMeetingsBatch, in the order of the batch.  The
\* variant keeps the optional fields of the previous entry that the
\* incoming record leaves undefined.
RECURSIVE SetItemsMerging(_, _, _)
SetItemsMerging(en, batch, t) ==
  IF batch = <<>> THEN en
  ELSE LET r == Head(batch)
           c == CachedMeetingData(r, t)
           old == IF en[r.meetingId] = {} THEN c
                  ELSE Parse(CHOOSE j \in en[r.meetingId] : TRUE)
           merged == [k \in DOMAIN c |->
                        IF k \in OptionalFields /\ c[k] = {} THEN old[k]
                        ELSE c[k]]
       IN  SetItemsMerging([en EXCEPT ![r.meetingId] = { Stringify(merged) }],
                           Tail(batch), t)

RECURSIVE SetItems(_, _, _)
SetItems(en, batch, t) ==
  IF batch = <<>> THEN en
  ELSE SetItems(
         [en EXCEPT ![Head(batch).meetingId] =
            { Stringify(CachedMeetingData(Head(batch), t)) }],
         Tail(batch), t)

\* meetings.map((m) => m.meetingId)
MeetingIds(batch) == [i \in 1..Len(batch) |-> batch[i].meetingId]

\* What getAllCachedMeetings makes of one stored entry that is not expired:
\* actionItems are dropped when they are set and their TTL has elapsed.
ReadEntry(j, t) ==
  LET data == Parse(j) IN
  IF data.actionItems # {} /\ ~IsCacheValid(data.cachedAt, ACTION_ITEMS_TTL, t)
  THEN [data EXCEPT !.actionItems = {}]
  ELSE data

\* A stored text JSON.parse throws on.
Malformed == [text |-> "{"]

\* JSON.parse(value) returns.
Parses(j) == "cachedAt" \in DOMAIN j

\* The ids getAllCachedMeetings collects in expiredIds.
ExpiredIds(en, t) ==
  { id \in CacheIds :
      /\ en[id] # {}
      /\ \E j \in en[id] :
           Parses(j) /\ ~IsCacheValid(j["cachedAt"], MEETINGS_TTL, t) }

\* The records getAllCachedMeetings returns: an entry that does not parse
\* is skipped.
AllCachedMeetings(en, t) ==
  { ReadEntry(j, t) :
      j \in { k \in UNION { en[id] : id \in CacheIds \ ExpiredIds(en, t) } :
                Parses(k) } }

\* getMeetingId(m) of pruneCache
GetMeetingId(m) == m.meeting.recordingId

\* meetings.sort((a, b) => b.cachedAt - a.cachedAt): every order of the
\* records that is descending in cachedAt (the order of allItems() among
\* records of one cachedAt is not specified).
SortedByCachedAt(S) ==
  { q \in [1..Cardinality(S) -> S] :
      /\ \A i, k \in 1..Cardinality(S) : i # k => q[i] # q[k]
      /\ \A i, k \in 1..Cardinality(S) :
           i < k => q[i].cachedAt >= q[k].cachedAt }

\* A getAllCachedMeetings call schedules pruneExpiredFromIndex(expiredIds)
\* when it finds expired entries: the call runs to its first await, the read
\* of the index.
Scheduled(en, t) ==
  IF ExpiredIds(en, t) = {} THEN sweep
  ELSE [pc |-> "get", expiredIds |-> ExpiredIds(en, t), meetingIds |-> <<>>]

\* One sweep is followed at a time: a call that would schedule a second one
\* is made when the first has ended.
MayRead == sweep.pc = "idle" \/ ExpiredIds(entries, now) = {}

\* The call made, what it saw, and whether it writes again the batch the
\* call before it wrote.
Called(type, batch, keep, pc, result, sorted) ==
  [type |-> type, pc |-> pc, at |-> now, batch |-> batch, keep |-> keep,
   entries |-> entries, index |-> index, result |-> result,
   sorted |-> sorted,
   repeat |-> /\ type = "writeBatch"
              /\ cacheCall.type = "writeBatch"
              /\ cacheCall.batch = batch,
   fault |-> "none", threw |-> FALSE]

cacheStateVars == << numMeetings, store, metadata, coordVars, procVars,
                    loadVars, viewVars, event >>

\* cacheMeetingsBatch(meetings)
CacheMeetingsBatchCall(batch) ==
  /\ cacheCall.pc = "done"
  /\ ops < MaxOps
  /\ ops' = ops + 1
  /\ entries' = SetItems(entries, batch, now)
  /\ index' = UpdateMeetingIndexBatch(index, MeetingIds(batch))
  /\ cacheCall' = Called("writeBatch", batch, 0, "done", {}, <<>>)
  /\ UNCHANGED << now, sweep, cacheStateVars >>

\* cacheMeetingsBatch(meetings), made while no sweep is in progress.
WriteBatch(batch) == sweep.pc = "idle" /\ CacheMeetingsBatchCall(batch)

\* cacheMeetingsBatch(meetings), made while pruneExpiredFromIndex runs.
WriteBatchRacing(batch) == sweep.pc # "idle" /\ CacheMeetingsBatchCall(batch)

\* The call made last, with the storage fault it met and whether the fault
\* left the call as an exception.
Faulted(call, fault, threw) ==
  [call EXCEPT !.fault = fault, !.threw = threw]

\* cacheMeetingsBatch(meetings) when the setItem of one record rejects:
\* Promise.all rejects, nothing catches it, and the index is not updated;
\* the other setItem calls, already issued, complete.
WriteBatchFails(batch) ==
  /\ cacheCall.pc = "done"
  /\ ops < MaxOps
  /\ ops' = ops + 1
  /\ \E failed \in Range(batch) :
       entries' = SetItems(entries, WrittenDespite(batch, failed), now)
  /\ cacheCall' = Faulted(Called("writeBatch", batch, 0, "done", {}, <<>>),
                          "setItem", TRUE)
  /\ UNCHANGED << now, index, sweep, cacheStateVars >>

\* cacheMeetingsBatch(meetings) when the storage rejects in
\* updateMeetingIndexBatch: the try/catch there logs and returns.
WriteBatchIndexFails(batch) ==
  /\ cacheCall.pc = "done"
  /\ ops < MaxOps
  /\ ops' = ops + 1
  /\ entries' = SetItems(entries, batch, now)
  /\ cacheCall' = Faulted(Called("writeBatch", batch, 0, "done", {}, <<>>),
                          "index", FALSE)
  /\ UNCHANGED << now, index, sweep, cacheStateVars >>

\* getAllCachedMeetings() when allItems() rejects: the outer catch returns [].
ReadAllFails ==
  /\ cacheCall.pc = "done"
  /\ ops < MaxOps
  /\ ops' = ops + 1
  /\ cacheCall' = Faulted(Called("readAll", <<>>, 0, "done", {}, <<>>),
                          "allItems", FALSE)
  /\ UNCHANGED << now, entries, index, sweep, cacheStateVars >>

\* getCachedMeeting(meetingId): an entry whose record TTL has elapsed is
\* removed from the storage; the index is not touched.  The result is null
\* for no entry, an expired entry and an entry that does not parse.
GetCachedMeeting(id) ==
  /\ cacheCall.pc = "done"
  /\ ops < MaxOps
  /\ ops' = ops + 1
  /\ entries' = IF id \in ExpiredIds(entries, now)
                THEN [entries EXCEPT ![id] = {}]
                ELSE entries
  /\ cacheCall' = Called("read", <<>>, id, "done",
                         { ReadEntry(j, now) :
                             j \in { k \in entries'[id] : Parses(k) } },
                         <<>>)
  /\ UNCHANGED << now, index, sweep, cacheStateVars >>

\* clearAllCache(): the entries the index lists are removed, then the index
\* (and the metadata, not in this part of the model).
ClearAllCache ==
  /\ cacheCall.pc = "done"
  /\ ops < MaxOps
  /\ ops' = ops + 1
  /\ entries' = [id \in CacheIds |->
                   IF id \in Range(index) THEN {} ELSE entries[id]]
  /\ index' = <<>>
  /\ cacheCall' = Called("clearAll", <<>>, 0, "done", {}, <<>>)
  /\ UNCHANGED << now, sweep, cacheStateVars >>

\* getAllCachedMeetings()
ReadAll ==
  /\ cacheCall.pc = "done"
  /\ MayRead
  /\ ops < MaxOps
  /\ ops' = ops + 1
  /\ cacheCall' = Called("readAll", <<>>, 0, "done",
                         AllCachedMeetings(entries, now), <<>>)
  /\ sweep' = Scheduled(entries, now)
  /\ UNCHANGED << now, entries, index, cacheStateVars >>

\* pruneCache(keepCount) up to `await Promise.all(toRemove.map(...))`.
PruneCache(keepCount) ==
  /\ cacheCall.pc = "done"
  /\ MayRead
  /\ ops < MaxOps
  /\ ops' = ops + 1
  /\ LET meetings == AllCachedMeetings(entries, now) IN
     IF Cardinality(meetings) <= keepCount
     THEN cacheCall' = Called("prune", <<>>, keepCount, "done", meetings, <<>>)
     ELSE \E sorted \in SortedByCachedAt(meetings) :
            cacheCall' = Called("prune", <<>>, keepCount, "remove", meetings,
                                sorted)
  /\ sweep' = Scheduled(entries, now)
  /\ UNCHANGED << now, entries, index, cacheStateVars >>

\* The removeItem calls of pruneCache are done.
PruneRemoved ==
  /\ cacheCall.type = "prune"
  /\ cacheCall.pc = "remove"
  /\ LET toRemove == { GetMeetingId(cacheCall.sorted[i]) :
                         i \in (cacheCall.keep + 1)..Len(cacheCall.sorted) }
     IN  entries' = [id \in CacheIds |->
                       IF id \in toRemove THEN {} ELSE entries[id]]
  /\ cacheCall' = [cacheCall EXCEPT !.pc = "index"]
  /\ UNCHANGED << now, ops, index, sweep, cacheStateVars >>

\* pruneCache rewrites the index with the kept ids.
PruneIndexed ==
  /\ cacheCall.type = "prune"
  /\ cacheCall.pc = "index"
  /\ index' = [i \in 1..cacheCall.keep |-> GetMeetingId(cacheCall.sorted[i])]
  /\ cacheCall' = [cacheCall EXCEPT !.pc = "done"]
  /\ UNCHANGED << now, ops, entries, sweep, cacheStateVars >>

\* pruneExpiredFromIndex has read the index (an empty index ends the call).
SweepGet ==
  /\ sweep.pc = "get"
  /\ sweep' = IF index = <<>> THEN NoSweep
              ELSE [sweep EXCEPT
                      !.pc = "set",
                      !.meetingIds =
                        SelectSeq(index, LAMBDA id : id \notin sweep.expiredIds)]
  /\ UNCHANGED << now, ops, entries, index, cacheCall, cacheStateVars >>

\* pruneExpiredFromIndex has written the filtered index.
SweepSet ==
  /\ sweep.pc = "set"
  /\ index' = sweep.meetingIds
  /\ sweep' = [sweep EXCEPT !.pc = "remove"]
  /\ UNCHANGED << now, ops, entries, cacheCall, cacheStateVars >>

\* pruneExpiredFromIndex has removed the expired entries.
SweepRemove ==
  /\ sweep.pc = "remove"
  /\ entries' = [id \in CacheIds |->
                   IF id \in sweep.expiredIds THEN {} ELSE entries[id]]
  /\ sweep' = NoSweep
  /\ UNCHANGED << now, ops, index, cacheCall, cacheStateVars >>

\* A second passes between two calls.
CacheTick ==
  /\ ops < MaxOps
  /\ ops' = ops + 1
  /\ now' = now + 1
  /\ UNCHANGED << entries, index, cacheCall, sweep, cacheStateVars >>

\* The incoming records: the meeting as the API returns it, with or without
\* the optional fields.
Meeting(id, title) == [recordingId |-> id, title |-> title]
FullRecord(id) ==
  [meetingId |-> id, meeting |-> Meeting(id, "renamed"), summary |-> { "s" },
   transcript |-> { "t" }, actionItems |-> { << "a" >> }]
BareRecord(id) ==
  [meetingId |-> id, meeting |-> Meeting(id, "first"), summary |-> {},
   transcript |-> {}, actionItems |-> {}]
NoItemsRecord(id) ==
  [meetingId |-> id, meeting |-> Meeting(id, "first"), summary |-> { "s" },
   transcript |-> {}, actionItems |-> { <<>> }]

Batches ==
  { << FullRecord(1) >>, << BareRecord(1), FullRecord(2) >>,
    << NoItemsRecord(2), BareRecord(3) >> }

\* How old the entries of an earlier session are: around the two TTLs.
CacheAges ==
  { 60, ACTION_ITEMS_TTL - 1, ACTION_ITEMS_TTL, MEETINGS_TTL - 1, MEETINGS_TTL }

\* The record of id an earlier session may have stored.
StoredShape(id) ==
  CASE id = 1 -> FullRecord(id)
    [] id = 2 -> BareRecord(id)
    [] OTHER  -> NoItemsRecord(id)

InitCache ==
  /\ numMeetings = 2
  /\ lastCacheUpdateTime = 0
  /\ store = [m \in Meetings |-> 0]
  /\ metadata = 0
  /\ InitMemory
  /\ NoView
  /\ \E age \in [CacheIds -> CacheAges \cup { 0 }] :
       entries = [id \in CacheIds |->
                    IF age[id] = 0 THEN {}
                    ELSE { Stringify(CachedMeetingData(StoredShape(id),
                                                       T0 - age[id])) }]
  /\ index = SelectSeq([i \in 1..MaxRecords |-> i],
                       LAMBDA id : entries[id] # {})
  /\ cacheCall = NoCall
  /\ sweep = NoSweep

KeepCounts == { 1, 2 }

NextCache ==
  \/ \E batch \in Batches : WriteBatch(batch)
  \/ ReadAll
  \/ \E keepCount \in KeepCounts : PruneCache(keepCount)
  \/ PruneRemoved
  \/ PruneIndexed
  \/ SweepGet
  \/ SweepSet
  \/ SweepRemove
  \/ CacheTick

SpecCache == InitCache /\ [][NextCache]_vars

\* The Record Cache with every operation of cache.ts, storage faults,
\* entries that do not parse, and writes made while a sweep runs.
StorageAges == { 60, MEETINGS_TTL }

InitStorage ==
  /\ numMeetings = 2
  /\ lastCacheUpdateTime = 0
  /\ store = [m \in Meetings |-> 0]
  /\ metadata = 0
  /\ InitMemory
  /\ NoView
  /\ \E age \in [CacheIds -> StorageAges \cup { 0, -1 }] :
       entries = [id \in CacheIds |->
                    CASE age[id] = 0 -> {}
                      [] age[id] = -1 -> { Malformed }
                      [] OTHER ->
                           { Stringify(CachedMeetingData(StoredShape(id),
                                                         T0 - age[id])) }]
  /\ index = SelectSeq([i \in 1..MaxRecords |-> i],
                       LAMBDA id : entries[id] # {})
  /\ cacheCall = NoCall
  /\ sweep = NoSweep

NextStorage ==
  \/ \E batch \in Batches : WriteBatch(batch)
  \/ \E batch \in Batches : WriteBatchRacing(batch)
  \/ \E batch \in Batches : WriteBatchFails(batch)
  \/ \E batch \in Batches : WriteBatchIndexFails(batch)
  \/ ReadAll
  \/ ReadAllFails
  \/ \E id \in CacheIds : GetCachedMeeting(id)
  \/ ClearAllCache
  \/ \E keepCount \in KeepCounts : PruneCache(keepCount)
  \/ PruneRemoved
  \/ PruneIndexed
  \/ SweepGet
  \/ SweepSet
  \/ SweepRemove
  \/ CacheTick

SpecStorage == InitStorage /\ [][NextStorage]_vars

\* ----------------------------------------------------- searchCachedMeetings

\* A string is the sequence of its characters.
Whitespace == { " ", "\t" }

\* s.toLowerCase(), on the characters the model uses.
LowerCaseOf(c) ==
  CASE c = "A" -> "a"
    [] c = "B" -> "b"
    [] OTHER   -> c
ToLowerCase(str) == [i \in 1..Len(str) |-> LowerCaseOf(str[i])]

\* !query.trim()
TrimsToEmpty(query) == \A i \in 1..Len(query) : query[i] \in Whitespace

\* str.split(/\s+/), from position i on, cur being the piece under way: a
\* run of whitespace ends a piece, so a leading or trailing run yields an
\* empty piece.
RECURSIVE SplitFrom(_, _, _)
SplitFrom(str, i, cur) ==
  IF i > Len(str) THEN << cur >>
  ELSE IF str[i] \in Whitespace
       THEN IF i > 1 /\ str[i - 1] \in Whitespace
            THEN SplitFrom(str, i + 1, cur)
            ELSE << cur >> \o SplitFrom(str, i + 1, <<>>)
       ELSE SplitFrom(str, i + 1, Append(cur, str[i]))
Split(str) == SplitFrom(str, 1, <<>>)

\* text.includes(term)
Includes(text, term) ==
  \E i \in 0..(Len(text) - Len(term)) :
    SubSeq(text, i + 1, i + Len(term)) = term

\* field || "": a field is a set, empty when undefined.
OrEmpty(field) == IF field = {} THEN <<>> ELSE CHOOSE str \in field : TRUE

\* [title, meetingTitle, summary, transcript].join(" ").toLowerCase()
SearchableText(cached) ==
  ToLowerCase(OrEmpty(cached.meeting.title) \o << " " >>
              \o OrEmpty(cached.meeting.meetingTitle) \o << " " >>
              \o OrEmpty(cached.summary) \o << " " >>
              \o OrEmpty(cached.transcript))

\* searchTerms.some(...) in place of searchTerms.every(...)
MatchesSomeTerm(cached, searchTerms) ==
  \E k \in 1..Len(searchTerms) :
    Includes(SearchableText(cached), searchTerms[k])

\* searchTerms.every((term) => searchableText.includes(term))
MatchesEveryTerm(cached, searchTerms) ==
  \A k \in 1..Len(searchTerms) :
    Includes(SearchableText(cached), searchTerms[k])

\* searchCachedMeetings(cachedMeetings, query)
SearchCachedMeetings(cachedRecords, query) ==
  IF TrimsToEmpty(query) THEN cachedRecords
  ELSE SelectSeq(cachedRecords,
                 LAMBDA cached :
                   MatchesEveryTerm(cached, Split(ToLowerCase(query))))

\* The call.
Search ==
  /\ search.pc = "called"
  /\ search' = [search EXCEPT
                  !.pc = "returned",
                  !.result = SearchCachedMeetings(search.records, search.query)]
  /\ UNCHANGED << numMeetings, now, ops, storeVars, coordVars, procVars,
                  loadVars, recordVars, hook, session, event >>

\* The queries and the records the call is made with.
QueryChars == { "a", "B", " ", "\t" }
Queries == UNION { [1..n -> QueryChars] : n \in 0..MaxQueryLen }
Searched(title, meetingTitle, summary, transcript) ==
  [meeting |-> [title |-> title, meetingTitle |-> meetingTitle],
   summary |-> summary, transcript |-> transcript]
SearchedRecords ==
  { Searched({ << "A", "b" >> }, {}, {}, {}),
    Searched({ << "a" >> }, {}, { << "b" >> }, {}),
    Searched({}, { << "b" >> }, {}, { << "x", " ", "A" >> }),
    Searched({ << "b", "a", "b" >> }, {}, { << "B" >> }, { << "a" >> }),
    Searched({ <<>> }, {}, {}, {}) }

InitSearch ==
  /\ numMeetings = 2
  /\ lastCacheUpdateTime = 0
  /\ store = [m \in Meetings |-> 0]
  /\ index = <<>>
  /\ metadata = 0
  /\ NoRecords
  /\ InitMemory
  /\ hook = NoHook
  /\ session = NoSession
  /\ \E n \in 0..MaxSearched :
       \E records \in [1..n -> SearchedRecords], query \in Queries :
         search = [records |-> records, query |-> query, result |-> <<>>,
                   pc |-> "called"]

NextSearch == Search

SpecSearch == InitSearch /\ [][NextSearch]_vars

\* ---------------------------------------------------------------- claims

Min(a, b) == IF a <= b THEN a ELSE b

BgActive(i) == bg[i].pc # "idle"
LmActive == lm.pc # "idle"

\* C1: if stopBackgroundFetch() is called before a background remaining-pages
\* loop performs its final write, no record that loop fetched is returned by
\* readAll() afterwards: a loop that saw a stop before its final token check
\* never writes its pages.
C1_StopDiscardsLoop ==
  \A i \in 1..MaxBg :
    (bg[i].stopSeen /\ bg[i].wrote) =>
      Range(bg[i].items) \cap GetAllCachedMeetings(store, now) = {}

\* C2: for N >= 1 enqueue calls with the same key while its task is in
\* flight, the task runs exactly once and all N callers receive the same
\* outcome (the same value, or the same rejection).
C2_DedupCollapse ==
  /\ \A k \in Keys : queue[k].callers > 0 => queue[k].execs = 1
  /\ event.type = "settle" =>
       /\ event.execs = 1
       /\ \A c \in DOMAIN event.outcomes :
            event.outcomes[c] = [ok |-> event.ok, result |-> event.result]

C2_Witness ==
  /\ event.type = "settle"
  /\ Len(event.outcomes) = 2
  /\ ~event.ok

\* C3: fetchAndCache calls with the same filter that are in progress together
\* share one first-page request and one background loop, and each receives
\* the same page-1 records.
C3_OneTaskPerFilter ==
  /\ \A f \in Filters :
       Cardinality({ k \in Keys : k.filter = f /\ task[k].pc # "idle" }) <= 1
  /\ \A k \in Keys : queue[k].callers > 0 <=> task[k].pc # "idle"
  /\ event.type = "settle" /\ event.ok =>
       \A c \in DOMAIN event.outcomes :
         event.outcomes[c].result =
           Range(ListMeetings(event.key.filter, NoCursor, numMeetings).items)

C3_OneLoopPerTask ==
  event'.type = "settle" =>
    Cardinality({ i \in 1..MaxBg : BgActive(i) }') =
      Cardinality({ i \in 1..MaxBg : BgActive(i) })
      + (IF /\ event'.ok
            /\ ListMeetings(event'.key.filter, NoCursor,
                            numMeetings).nextCursor # NoCursor
         THEN 1 ELSE 0)

C3_SharedFirstPage == [](C3_OneTaskPerFilter) /\ [][C3_OneLoopPerTask]_vars

C3_Witness ==
  /\ event.type = "settle"
  /\ event.ok
  /\ Len(event.outcomes) = 2
  /\ \E i \in 1..MaxBg : bg[i].pc = "toast" /\ bg[i].filter = event.key.filter

\* C4: from an empty store, with one fetchAndCache call and nothing else: when
\* the call resolves on a first page that has a cursor, the in-memory set is
\* exactly page 1 and hasMore() is true; when the background loop has
\* completed, the set is page 1 and all the background pages, the fetching
\* flag is false, and hasMore() is true exactly when the last page fetched
\* returned a cursor.
C4_EndToEnd ==
  LET f == event.key.filter
      pages == Matching(f, numMeetings)
      fetched == 1..Min(Len(pages), 1 + MAX_BACKGROUND_PAGES)
  IN  ops = 1 =>
        /\ ( /\ event.type = "settle"
             /\ event.ok
             /\ ListMeetings(f, NoCursor, numMeetings).nextCursor # NoCursor )
           => /\ cachedMeetings = { pages[1] }
              /\ hasMoreMeetings
        /\ event.type = "bg-done"
           => /\ cachedMeetings = { pages[k] : k \in fetched }
              /\ hasMoreMeetings = (Len(pages) > 1 + MAX_BACKGROUND_PAGES)
              /\ ~isFetchingBackground

C4_Witness ==
  /\ ops = 1
  /\ event.type = "bg-done"
  /\ cachedMeetings = {1, 2}
  /\ ~hasMoreMeetings

\* C5 (as claimed): cancelling one of the two paths never aborts the other: no
\* step makes both a current background loop and a current load-more loop
\* stale.
BgCurrent == \E i \in 1..MaxBg : BgActive(i) /\ bg[i].token = remainingPagesToken
LmCurrent == LmActive /\ lm.token = loadMoreToken

C5_IndependentCancellation ==
  [][ (BgCurrent /\ LmCurrent) =>
        ~( remainingPagesToken' # remainingPagesToken
           /\ loadMoreToken' # loadMoreToken ) ]_vars

\* C5 (amended): the two paths keep separate tokens.  Starting a load-more
\* bumps loadMoreToken only; remainingPagesToken changes only in
\* stopBackgroundFetch(), which, when the fetching flag is set, bumps both
\* tokens by one and so aborts both paths together.
C5_TokenSteps ==
  /\ remainingPagesToken' # remainingPagesToken =>
       /\ event'.type = "stop"
       /\ isFetchingBackground
       /\ remainingPagesToken' = remainingPagesToken + 1
       /\ loadMoreToken' = loadMoreToken + 1
  /\ (loadMoreToken' # loadMoreToken /\ event'.type # "stop") =>
       /\ lm'.token = loadMoreToken'
       /\ loadMoreToken' = loadMoreToken + 1
       /\ remainingPagesToken' = remainingPagesToken
       /\ bg' = bg

C5_SeparateTokens == [][C5_TokenSteps]_vars

C5_Witness ==
  /\ event.type = "stop"
  /\ event.ok
  /\ LmActive /\ lm.token # loadMoreToken
  /\ \E i \in 1..MaxBg : BgActive(i) /\ bg[i].token # remainingPagesToken

\* C6: a background remaining-pages loop and a load-more loop are never active
\* together having started from the same cursor.
C6_NoSharedCursor ==
  \A i \in 1..MaxBg :
    ~( /\ BgActive(i)
       /\ LmActive
       /\ bg[i].filter = lm.filter
       /\ bg[i].startCursor = lm.startCursor )

\* C7: when fetchAndCache resolves after fetching page 1, every page-1 record
\* is in the in-memory set and in the store, and the listeners have been
\* notified with a set that contains them.
C7_FirstPageMerged ==
  (event.type = "settle" /\ event.ok) =>
    /\ event.result \subseteq cachedMeetings
    /\ event.result \subseteq GetAllCachedMeetings(store, now)
    /\ event.result \subseteq lastNotified

\* C8: the remembered hash is always that of a write that completed
\* successfully, so that only a batch already written is skipped: outside a
\* write in progress, every id of the remembered hash is in the store.
C8_HashOfSuccessfulWrite ==
  (lastApiDataHash # NoHash /\ merge.pc # "write") =>
    Range(lastApiDataHash) \subseteq GetAllCachedMeetings(store, now)

\* C9: when a fetchAndCache call that fetched the first page resolves,
\* isCacheStale() is false, with or without a cursor on the first page.
C9_FreshAfterFetch ==
  (event.type = "settle" /\ event.ok) =>
    ~IsCacheStale(lastCacheUpdateTime, now)

\* C10: isCacheStale() is true iff no fetch time is recorded or more than 5
\* minutes have passed since it: false at exactly 5 minutes, true one second
\* later.
C10_StaleThreshold ==
  event.type = "isCacheStale" =>
    /\ event.ok <=> ( lastCacheUpdateTime = 0
                      \/ now - lastCacheUpdateTime > 5 * 60 )
    /\ now - lastCacheUpdateTime = 5 * 60 => ~event.ok
    /\ now - lastCacheUpdateTime = 5 * 60 + 1 => event.ok

C10_Witness ==
  /\ event.type = "isCacheStale"
  /\ lastCacheUpdateTime # 0
  /\ now - lastCacheUpdateTime = 5 * 60
  /\ ~event.ok

\* C11: a fetchAndCache call without force made less than 5 seconds after the
\* previous fetch attempt sends no request, writes nothing, changes no
\* coordinator state and returns the current in-memory set; an unforced call
\* goes on to the queue only outside that window, and a forced call always
\* goes on.  (In an event of fetchAndCache, ok says the call passed the guard.)
C11_FetchCalled == event'.type \in { "fetch", "fetch-forced" }

C11_CooldownStep ==
  /\ (C11_FetchCalled /\ ~event'.ok) =>
       /\ event'.type = "fetch"
       /\ now - lastFetchTime < 5
       /\ event'.result = cachedMeetings
       /\ UNCHANGED << numMeetings, now, storeVars, coordVars, procVars >>
  /\ (event'.type = "fetch" /\ event'.ok) => now - lastFetchTime >= 5
  /\ event'.type = "fetch-forced" =>
       /\ event'.ok
       /\ lastFetchTime' = now
       /\ task'[event'.key].pc # "idle"

C11_Cooldown == [][C11_CooldownStep]_vars

C11_Witness ==
  /\ event.type = "fetch"
  /\ ~event.ok
  /\ lastFetchTime # 0
  /\ event.result # {}

\* C12: refreshCache clears the hash gate, sets nextCursor to none and hasMore
\* to true and has a first-page request made whatever the cooldown; and when
\* the answer to the first-page request of a refresh arrives, its merge is not
\* skipped by the hash gate.
C12_RefreshStep ==
  /\ event'.type = "refresh" =>
       /\ lastApiDataHash' = NoHash
       /\ nextCursor' = NoCursor
       /\ hasMoreMeetings'
       /\ lastFetchTime' = now
       /\ task'[event'.key].pc # "idle"
  /\ \A k \in Keys :
       ( /\ task[k].pc = "net"
         /\ task[k].refresh
         /\ task'[k].pc # "net"
         /\ ~(event'.type = "settle" /\ event'.key = k /\ ~event'.ok) )
       => lastApiDataHash #
            DataHash(ListMeetings(k.filter, NoCursor, numMeetings).items)

C12_RefreshRestarts == [][C12_RefreshStep]_vars

\* C13: within one loop the page requests form a chain in cursor order: the
\* first request uses the loop's starting cursor, every later request uses
\* the nextCursor of the response just before it, the loop requests nothing
\* after a response without cursor, and a background loop makes at most 4
\* requests, a load-more loop at most 5.  (A loop at "net" has its request
\* number pageNum in flight, with cursor `cursor`.)
C13_InFlight(b, cap) ==
  b.pc = "net" => (b.cursor # NoCursor /\ 1 <= b.pageNum /\ b.pageNum <= cap)

C13_Requests(b, bn) ==
  /\ (b.pc = "toast" /\ bn.pc = "net") =>
       /\ bn.cursor = b.startCursor
       /\ bn.pageNum = 1
       /\ bn.items = <<>>
  /\ (b.pc = "net" /\ bn.pc = "net" /\ bn.pageNum # b.pageNum) =>
       LET page == ListMeetings(b.filter, b.cursor, numMeetings) IN
       /\ page.nextCursor # NoCursor
       /\ bn.cursor = page.nextCursor
       /\ bn.pageNum = b.pageNum + 1
       /\ bn.items = b.items \o page.items
  /\ b.pc \notin { "toast", "net" } => bn.pc # "net"

C13_AllInFlight ==
  /\ \A i \in 1..MaxBg : C13_InFlight(bg[i], 4)
  /\ C13_InFlight(lm, 5)

C13_AllRequests ==
  /\ \A i \in 1..MaxBg : C13_Requests(bg[i], bg'[i])
  /\ C13_Requests(lm, lm')

C13_CursorChain == [](C13_AllInFlight) /\ [][C13_AllRequests]_vars

C13_Witness ==
  /\ lm.pc = "net"
  /\ lm.pageNum = 5
  /\ Len(lm.items) = 4
  /\ \E i \in 1..MaxBg : bg[i].pc = "net" /\ bg[i].pageNum = 4

\* C14: after stopBackgroundFetch() has been called while a background or
\* load-more loop is in flight, that loop sends no further page request.
C14_Silent(b, bn) ==
  b.stopSeen => ~(bn.pc = "net" /\ bn.pageNum # b.pageNum)

C14_NoRequestAfterStop ==
  [][/\ \A i \in 1..MaxBg : C14_Silent(bg[i], bg'[i])
     /\ C14_Silent(lm, lm')]_vars

\* C15: every time the fetch-in-progress flag becomes true it eventually
\* becomes false again, provided every request eventually returns or fails;
\* and once all background and load-more loops have ended, the flag is false
\* and the last value delivered to the fetching listeners is false.
C15_AllLoopsEnded == (\A i \in 1..MaxBg : ~BgActive(i)) /\ ~LmActive

C15_FalseWhenEnded ==
  C15_AllLoopsEnded => (~isFetchingBackground /\ fetchingDelivered = FALSE)

C15_FlagReturns ==
  /\ [](C15_FalseWhenEnded)
  /\ isFetchingBackground ~> ~isFetchingBackground

C15_Witness ==
  /\ C15_AllLoopsEnded
  /\ event.type \in { "bg-done", "bg-aborted", "bg-failed" }
  /\ remainingPagesToken > 0
  /\ ~isFetchingBackground

\* C16: when loadMoreMeetings completes without abort or error, every record
\* of the pages it fetched is in the cache (in memory and in the store),
\* nextCursor is the cursor of the last page it fetched and hasMore() is true
\* exactly when that cursor is present; and its merge removes no record that
\* was cached before.
C16_LoadMoreStep ==
  /\ event'.type = "lm-done" =>
       /\ Range(lm.items) \subseteq cachedMeetings'
       /\ Range(lm.items) \subseteq GetAllCachedMeetings(store', now')
       /\ nextCursor' = lm.cursor
       /\ hasMoreMeetings' = (lm.cursor # NoCursor)
  /\ (merge.kind = "lm" /\ merge' # merge) =>
       /\ cachedMeetings \subseteq cachedMeetings'
       /\ GetAllCachedMeetings(store, now)
            \subseteq GetAllCachedMeetings(store', now')

C16_LoadMoreAdds == [][C16_LoadMoreStep]_vars

\* C17: when hasMore() is false, loadMoreMeetings is a no-op: it starts no
\* loop (no page request), writes nothing, leaves nextCursor, hasMore, both
\* tokens, the fetching flag and the in-memory set unchanged, and resolves
\* normally.
C17_NoOpStep ==
  /\ event'.type \in { "lm-none", "lm-busy" } =>
       /\ event'.ok
       /\ UNCHANGED << numMeetings, now, storeVars, coordVars, procVars >>
  /\ event'.type = "lm-none" => (~hasMoreMeetings \/ nextCursor = NoCursor)
  /\ ~hasMoreMeetings =>
       /\ ~(lm.pc = "idle" /\ lm'.pc # "idle")
       /\ (loadMoreToken' # loadMoreToken => event'.type = "stop")

C17_LoadMoreNoOp == [][C17_NoOpStep]_vars

C17_Witness ==
  /\ event.type = "lm-none"
  /\ ~hasMoreMeetings
  /\ cachedMeetings # {}
  /\ lm.pc = "idle"

\* C18: cancellation is not an error: a background or load-more path that is
\* aborted (which only happens after a stopBackgroundFetch()) returns
\* normally, and neither the abort nor any step of the path before its final
\* token check changes nextCursor, hasMore, lastCacheUpdateTime, the store
\* or the in-memory set.
C18_Kept ==
  UNCHANGED << nextCursor, hasMoreMeetings, lastCacheUpdateTime, storeVars,
               cachedMeetings >>

C18_BeforeWrite(b, bn) ==
  (BeforeFinalWrite(b) /\ bn # b /\ bn.pc \notin { "merge", "meta" })
    => C18_Kept

C18_AbortStep ==
  /\ event'.type = "lm-aborted" =>
       (event'.ok /\ lm.stopSeen /\ BeforeFinalWrite(lm) /\ C18_Kept)
  /\ event'.type = "bg-aborted" =>
       /\ event'.ok
       /\ C18_Kept
       /\ \E i \in 1..MaxBg :
            bg[i].stopSeen /\ BeforeFinalWrite(bg[i]) /\ bg'[i].pc = "idle"
  /\ \A i \in 1..MaxBg : C18_BeforeWrite(bg[i], bg'[i])
  /\ C18_BeforeWrite(lm, lm')

C18_AbortIsSilent == [][C18_AbortStep]_vars

C18_Witness ==
  /\ event.type = "bg-aborted"
  /\ Cardinality(event.result) >= 2
  /\ ~(event.result \subseteq cachedMeetings)
  /\ nextCursor # NoCursor

\* C19: when a page request fails inside fetchAndCache (first page) or
\* loadMoreMeetings, the call rejects, no background loop is launched, and
\* no step of the failing call (the call, the failure, the error toast)
\* changes the store, the in-memory set, nextCursor, hasMore or
\* lastCacheUpdateTime: the records cached before remain available.  (A
\* first-page task that ends in a step of the environment ends by a failed
\* request.)
C19_Kept ==
  UNCHANGED << nextCursor, hasMoreMeetings, lastCacheUpdateTime, storeVars,
               cachedMeetings >>

C19_FailStep ==
  /\ \A k \in Keys :
       (task[k].pc = "net" /\ task'[k].pc = "idle" /\ ops' # ops) =>
         /\ event' = SettleEv(k, FALSE, {})
         /\ \A c \in DOMAIN event'.outcomes : ~event'.outcomes[c].ok
         /\ bg' = bg
         /\ C19_Kept
  /\ event'.type \in { "fetch", "fetch-forced" } => C19_Kept
  /\ (lm.pc = "idle" /\ lm'.pc # "idle") => C19_Kept
  /\ (lm.pc = "net" /\ lm'.pc = "error") => (bg' = bg /\ C19_Kept)
  /\ lm.pc = "error" =>
       \/ lm' = lm
       \/ /\ event'.type = "lm-failed"
          /\ ~event'.ok
          /\ bg' = bg
          /\ C19_Kept

C19_FailureKeepsCache == [][C19_FailStep]_vars

C19_Witness ==
  /\ event.type = "settle"
  /\ ~event.ok
  /\ lastApiDataHash = NoHash
  /\ cachedMeetings # {}
  /\ cachedMeetings = GetAllCachedMeetings(store, now)

\* C20: a failure of a page request inside the background remaining-pages
\* loop rejects no fetchAndCache call and reaches no subscriber: the loop
\* ends, none of its pages is written, the cached records and nextCursor
\* stay, and the fetching flag is false unless the loop had been stopped.
\* When the fetch and the failure are all that happened, the cache holds
\* page 1 and nextCursor is the first page's cursor.
C20_LoopFails(i) == bg[i].pc = "net" /\ bg'[i].pc = "idle" /\ ops' # ops

C20_FailStep ==
  \A i \in 1..MaxBg :
    C20_LoopFails(i) =>
      /\ event'.type = "bg-failed"
      /\ UNCHANGED << queue, task, lastNotified, storeVars, cachedMeetings,
                      nextCursor, hasMoreMeetings, lastCacheUpdateTime,
                      mergeVars >>
      /\ bg[i].token = remainingPagesToken => ~isFetchingBackground'
      /\ ops' = 2 =>
           /\ cachedMeetings' = Range(bg[i].already)
           /\ nextCursor' = bg[i].startCursor
           /\ hasMoreMeetings'
           /\ ~isFetchingBackground'
           /\ fetchingDelivered' = FALSE

C20_BackgroundFailure == [][C20_FailStep]_vars

C20_Witness ==
  /\ event.type = "bg-failed"
  /\ ops = 2
  /\ Cardinality(event.result) >= 2
  /\ Cardinality(cachedMeetings) = 1
  /\ cachedMeetings \subseteq event.result
  /\ nextCursor # NoCursor
  /\ ~isFetchingBackground

\* A loadCache call is made by this step.
LoadCalled ==
  \E c \in 1..MaxLoaders : loader[c].pc = "idle" /\ ops' # ops

\* C21: loadCache is at-most-once-effective: over any sequence and
\* interleaving of loadCache calls (callers that arrive while a load is in
\* progress and callers that time out waiting included) the persisted cache
\* is read from storage into memory at most once, and every call made after
\* the first completion returns the in-memory set without touching storage.
C21_ReadOnce == storageReads <= 1

C21_AfterCompletion ==
  (LoadCalled /\ isLoaded /\ ~isLoading) =>
     /\ event' = Ev("loadCache", NoKey, TRUE, cachedMeetings)
     /\ UNCHANGED << storageReads, loader, cachedMeetings, isLoading >>

C21_AtMostOnceEffective == [](C21_ReadOnce) /\ [][C21_AfterCompletion]_vars

\* C22: when persisted metadata exists, lastCacheUpdateTime is restored from
\* it before any caller's loadCache resolves: isCacheStale() evaluated right
\* after a loadCache call returns reflects the persisted lastUpdated, so a
\* cache updated less than 5 minutes ago is not reported stale.
C22_RestoredBeforeReturn ==
  ( /\ event.type \in { "loadCache", "loadCache-timeout" }
    /\ metadata # 0
    /\ now - metadata < CACHE_STALE_THRESHOLD )
  => ~IsCacheStale(lastCacheUpdateTime, now)

\* A load is under way: some call is between line 143 and its `finally`.
LoadUnderWay == \E c \in 1..MaxLoaders : loader[c].pc \in { "read", "meta" }

\* C23: a loadCache caller that finds a load already in progress always
\* terminates: it returns the in-memory record set once the concurrent load
\* finishes, or an empty result once the bounded wait (30 seconds) has
\* elapsed; it never waits forever, even if the load never completes.
C23_Terminates ==
  \A c \in 1..MaxLoaders : (loader[c].pc = "wait") ~> (loader[c].pc = "idle")

C23_ReturnStep ==
  \A c \in 1..MaxLoaders :
    (loader[c].pc = "wait" /\ loader'[c].pc = "idle") =>
       \/ /\ ~LoadUnderWay
          /\ event'.result = cachedMeetings
       \/ /\ WaitedTooLong(loader[c].startTime, now)
          /\ event'.result = {}

C23_WaiterReturns == [][C23_ReturnStep]_vars

C23_BoundedWait == C23_Terminates /\ C23_WaiterReturns

\* No load, merge, first-page task or fetch loop is in progress.
Quiescent ==
  /\ \A c \in 1..MaxLoaders : loader[c].pc = "idle"
  /\ \A k \in Keys : task[k].pc = "idle"
  /\ \A i \in 1..MaxBg : ~BgActive(i)
  /\ ~LmActive
  /\ merge = NoMerge

\* C24: the in-memory record set is kept consistent with the store: in
\* every quiescent state reached after at least one load or merge,
\* getCachedRecords() holds exactly the records readAll() returns.
C24_MirrorConsistent ==
  (Quiescent /\ lastNotified # NoNotify)
  => cachedMeetings = GetAllCachedMeetings(store, now)

\* The calls notifyListeners makes: one per registered listener, in
\* registration order, each with the in-memory set.
NotifiedInOrder ==
  listenerCalls' = [i \in 1..Len(listeners) |->
                      Call(listeners[i], cachedMeetings')]

\* C25: a listener passed to subscribe is invoked at once with the current
\* record set if the cache is already loaded, and afterwards exactly once,
\* with the full current record set, for every successful merge until it is
\* unsubscribed, after which it is not invoked again; every notification
\* calls the listeners in registration order.
C25_SubscribeStep ==
  \A l \in ListenerIds :
    (l \notin Range(listeners) /\ l \in Range(listeners')) =>
       /\ listeners' = Append(listeners, l)
       /\ listenerCalls' =
            IF isLoaded THEN << Call(l, cachedMeetings) >> ELSE <<>>

C25_MergeStep ==
  (merge.pc = "reload" /\ merge'.pc = "none") =>
     /\ cachedMeetings' = GetAllCachedMeetings(store', now')
     /\ listeners' = listeners
     /\ NotifiedInOrder

C25_UnsubscribeStep ==
  \A l \in ListenerIds :
    (l \in Range(listeners) /\ l \notin Range(listeners')) =>
       /\ listeners' = SelectSeq(listeners, LAMBDA x : x # l)
       /\ listenerCalls' = <<>>

C25_OnlyRegistered ==
  listenerCalls' # listenerCalls =>
    \A i \in 1..Len(listenerCalls') :
      listenerCalls'[i].listener \in Range(listeners')

C25_ListenerStep ==
  /\ C25_SubscribeStep
  /\ C25_MergeStep
  /\ C25_UnsubscribeStep
  /\ C25_OnlyRegistered

C25_ListenerNotified == [][C25_ListenerStep]_vars

C25_Witness ==
  /\ listeners = << 2, 1 >>
  /\ cachedMeetings = { 1, 2 }
  /\ listenerCalls = << Call(2, cachedMeetings), Call(1, cachedMeetings) >>
  /\ merge = NoMerge

\* C26: a listener passed to subscribeFetching receives the current flag at
\* once and then one call per change of the flag: the values it receives
\* alternate strictly, and the last one is isFetchingBackground().
C26_Alternates ==
  \A l \in ListenerIds :
    Len(fetchingSeen[l]) = 2 => fetchingSeen[l][1] # fetchingSeen[l][2]

C26_LastIsCurrent ==
  \A l \in fetchingListeners :
    /\ fetchingSeen[l] # <<>>
    /\ fetchingSeen[l][Len(fetchingSeen[l])] = isFetchingBackground

C26_FetchingListener == C26_Alternates /\ C26_LastIsCurrent

C26_Witness ==
  /\ fetchingListeners = ListenerIds
  /\ fetchingSeen[1] = << TRUE, FALSE >>
  /\ fetchingSeen[2] = << FALSE >>
  /\ ~isFetchingBackground

\* The age, at the time of the call made last, of the entry that call saw.
AgeSeen(id) ==
  cacheCall.at - (CHOOSE j \in cacheCall.entries[id] : TRUE)["cachedAt"]

\* The entry of id the call made last saw, as the record it parses to.
SeenRecord(id) == Parse(CHOOSE j \in cacheCall.entries[id] : TRUE)

\* The record of id in the result of the call made last.
Returned(id) ==
  { d \in cacheCall.result : d.hash = GenerateHash(id) }

\* C27: readAll returns a stored record of age in [6 h, 30 d) with
\* actionItems absent and every other field as stored, does not return a
\* record of age 30 d or more, and returns a record younger than 6 h with
\* every field as stored.
C27_TtlIndependence ==
  cacheCall.type = "readAll" =>
    \A id \in CacheIds :
      IF cacheCall.entries[id] = {} THEN Returned(id) = {}
      ELSE /\ AgeSeen(id) >= MEETINGS_TTL => Returned(id) = {}
           /\ (AgeSeen(id) >= ACTION_ITEMS_TTL /\ AgeSeen(id) < MEETINGS_TTL)
                => Returned(id) = { [SeenRecord(id) EXCEPT !.actionItems = {}] }
           /\ AgeSeen(id) < ACTION_ITEMS_TTL
                => Returned(id) = { SeenRecord(id) }

\* A readAll that saw a record with action items exactly 6 h old, a record
\* exactly 30 d old and a record younger than 6 h.
C27_Witness ==
  /\ cacheCall.type = "readAll"
  /\ \E a, b, c \in CacheIds :
       /\ cacheCall.entries[a] # {} /\ cacheCall.entries[b] # {}
       /\ cacheCall.entries[c] # {}
       /\ AgeSeen(a) = ACTION_ITEMS_TTL
       /\ SeenRecord(a).actionItems # {}
       /\ SeenRecord(a).summary # {}
       /\ Returned(a) # {}
       /\ AgeSeen(b) = MEETINGS_TTL
       /\ AgeSeen(c) < ACTION_ITEMS_TTL
       /\ Returned(c) # {}

\* pruneCache has returned and the sweep its read scheduled has ended.
PruneEnded ==
  /\ cacheCall.type = "prune"
  /\ cacheCall.pc = "done"
  /\ sweep.pc = "idle"

\* The live records of the store, as of the time of the call made last.
LiveNow == AllCachedMeetings(entries, cacheCall.at)

\* What C28 states of a prune that has ended: of M > N live records the N
\* newest remain and the index lists exactly their ids; M <= N live records
\* and their ids in the index are left as they were.
PruneExact ==
  IF Cardinality(cacheCall.result) > cacheCall.keep
  THEN /\ Cardinality(LiveNow) = cacheCall.keep
       /\ LiveNow \subseteq cacheCall.result
       /\ \A k \in LiveNow, r \in cacheCall.result \ LiveNow :
            k.cachedAt >= r.cachedAt
       /\ Len(index) = cacheCall.keep
       /\ Range(index) = { GetMeetingId(k) : k \in LiveNow }
  ELSE /\ LiveNow = cacheCall.result
       /\ LET live == { GetMeetingId(k) : k \in LiveNow } IN
            SelectSeq(index, LAMBDA id : id \in live)
              = SelectSeq(cacheCall.index, LAMBDA id : id \in live)

\* C28: after prune(N) on M > N live records exactly the N records of the
\* most recent cachedAt remain and the index holds exactly their ids; with
\* M <= N prune changes nothing.
C28_PruneExact == PruneEnded => PruneExact

\* The same when the store held no expired entry at the time of the call.
C28_WithoutExpired ==
  (PruneEnded /\ ExpiredIds(cacheCall.entries, cacheCall.at) = {})
    => PruneExact

\* A prune that removed records has ended, on a store without expired entry.
C28_Removed ==
  /\ PruneEnded
  /\ ExpiredIds(cacheCall.entries, cacheCall.at) = {}
  /\ Cardinality(cacheCall.result) > cacheCall.keep
  /\ \E a, b \in cacheCall.result : a.cachedAt # b.cachedAt

\* The step is a cacheMeetingsBatch of the batch the call before it wrote.
SecondWrite ==
  /\ cacheCall'.type = "writeBatch"
  /\ cacheCall'.repeat
  /\ ops' = ops + 1
  /\ now' = now

\* The stored entries with the cachedAt of the ids of the batch set to t.
Rewritten(en, batch, t) ==
  [id \in CacheIds |->
     IF id \in Range(MeetingIds(batch))
     THEN { [j EXCEPT !["cachedAt"] = t] : j \in en[id] }
     ELSE en[id]]

\* C29 as stated: writing a batch a second time leaves the index and every
\* stored record as the first write left them.
C29_IdenticalContent ==
  [][SecondWrite => (index' = index /\ entries' = entries)]_vars

\* C29, amended: writing a batch a second time leaves the index as it was,
\* each id once, and every stored record as it was but for the cachedAt of
\* the records of the batch, which becomes the time of the second write.
C29_IdempotentButCachedAt ==
  [][SecondWrite =>
       /\ index' = index
       /\ \A i, k \in 1..Len(index') : i # k => index'[i] # index'[k]
       /\ Range(MeetingIds(cacheCall'.batch)) \subseteq Range(index')
       /\ \A id \in Range(MeetingIds(cacheCall'.batch)) : entries[id] # {}
       /\ entries' = Rewritten(entries, cacheCall'.batch, now)]_vars

\* A batch of two records has been written a second time, later than the
\* first time.
C29_Witness ==
  /\ cacheCall.type = "writeBatch"
  /\ cacheCall.repeat
  /\ Len(cacheCall.batch) = 2
  /\ \A id \in Range(MeetingIds(cacheCall.batch)) :
       /\ cacheCall.entries[id] # {}
       /\ AgeSeen(id) > 0
       /\ entries[id] # cacheCall.entries[id]

\* The step is a cacheMeetingsBatch.
WriteStep ==
  /\ cacheCall'.type = "writeBatch"
  /\ ops' = ops + 1
  /\ now' = now

\* The stored entry j holds exactly the incoming record r, written at t.
HoldsExactly(j, r, t) ==
  /\ j["meeting"] = r.meeting
  /\ j["cachedAt"] = t
  /\ j["hash"] = GenerateHash(r.meetingId)
  /\ \A k \in OptionalFields :
       IF r[k] = {} THEN k \notin DOMAIN j
       ELSE k \in DOMAIN j /\ r[k] = { j[k] }
  /\ Parse(j) = CachedMeetingData(r, t)

\* C30: after a writeBatch the stored entry of every id of the batch holds
\* exactly the incoming payload, summary, transcript and action items (a
\* field the incoming record lacks is absent, whatever the previous entry
\* held) with cachedAt the time of this write, and the entries of the other
\* ids are unchanged.
C30_ReplacesWholesale ==
  [][WriteStep =>
       \A id \in CacheIds :
         IF id \in Range(MeetingIds(cacheCall'.batch))
         THEN \E j \in entries'[id] :
                /\ entries'[id] = { j }
                /\ \A i \in 1..Len(cacheCall'.batch) :
                     cacheCall'.batch[i].meetingId = id
                       => HoldsExactly(j, cacheCall'.batch[i], now)
         ELSE entries'[id] = entries[id]]_vars

\* A record without summary, transcript and action items has been written
\* over an older entry that held all three, beside an entry the batch did
\* not name.
C30_Witness ==
  /\ cacheCall.type = "writeBatch"
  /\ \E i \in 1..Len(cacheCall.batch), other \in CacheIds :
       LET r == cacheCall.batch[i] IN
       /\ r.summary = {} /\ r.transcript = {} /\ r.actionItems = {}
       /\ cacheCall.entries[r.meetingId] # {}
       /\ AgeSeen(r.meetingId) > 0
       /\ SeenRecord(r.meetingId).transcript # {}
       /\ SeenRecord(r.meetingId).summary # {}
       /\ SeenRecord(r.meetingId).actionItems # {}
       /\ \E j \in entries[r.meetingId] : "summary" \notin DOMAIN j
       /\ other \notin Range(MeetingIds(cacheCall.batch))
       /\ entries[other] # {}
       /\ entries[other] = cacheCall.entries[other]

\* C31: readAll and writeBatch never raise an exception to their caller,
\* whether an entry is malformed or a storage read or write fails.
C31_NeverThrows ==
  cacheCall.type \in { "readAll", "writeBatch" } => ~cacheCall.threw

\* The part of C31 that is about readAll: it returns, with the records of
\* the entries that parse and are not expired, and with none when the bulk
\* read failed.
C31_ReadAllRecovers ==
  cacheCall.type = "readAll" =>
    /\ ~cacheCall.threw
    /\ cacheCall.result =
         IF cacheCall.fault = "allItems" THEN {}
         ELSE { ReadEntry(j, cacheCall.at) :
                  j \in { k \in UNION { cacheCall.entries[id] : id \in CacheIds } :
                            /\ Parses(k)
                            /\ IsCacheValid(k["cachedAt"], MEETINGS_TTL,
                                            cacheCall.at) } }

\* No Record Cache operation is in progress.
CacheQuiescent == cacheCall.pc = "done" /\ sweep.pc = "idle"

\* C32: whenever no Record Cache operation is in progress, every id the
\* index lists has an entry in the store.
C32_IndexListsPresent ==
  CacheQuiescent => \A id \in Range(index) : entries[id] # {}

\* A step of the sweep that a getAllCachedMeetings scheduled, taken after a
\* cacheMeetingsBatch that was made while the sweep was in progress.
SweepsAfterWrite ==
  /\ cacheCall.type = "writeBatch"
  /\ cacheCall.fault = "none"
  /\ sweep.pc # "idle"
  /\ sweep' # sweep
  /\ cacheCall' = cacheCall

\* C38: the clean-up scheduled by readAll leaves alone a record that was
\* found expired and has been rewritten by writeBatch since: its entry
\* stays in the store and its id stays in the index.
C38_SweepSparesRewritten ==
  [][SweepsAfterWrite =>
       \A id \in Range(MeetingIds(cacheCall.batch)) \cap sweep.expiredIds :
         /\ entries'[id] = entries[id]
         /\ id \in Range(index) => id \in Range(index')]_vars

SubstringsOf(str) ==
  { SubSeq(str, i, k) : i \in 1..Len(str), k \in 1..Len(str) } \ { <<>> }

\* The whitespace-separated terms of a string: its maximal runs of
\* characters that are not whitespace.
IsTerm(str, term) ==
  \E i \in 1..Len(str), k \in 1..Len(str) :
    /\ i <= k
    /\ term = SubSeq(str, i, k)
    /\ \A n \in i..k : str[n] \notin Whitespace
    /\ i = 1 \/ str[i - 1] \in Whitespace
    /\ k = Len(str) \/ str[k + 1] \in Whitespace

\* The record matches the query as C33 has it.
MatchesQuery(cached, query) ==
  \A term \in SubstringsOf(ToLowerCase(query)) :
    IsTerm(ToLowerCase(query), term)
      => Includes(SearchableText(cached), term)

\* res is a subsequence of input (same relative order).
RECURSIVE IsSubsequence(_, _)
IsSubsequence(res, input) ==
  IF res = <<>> THEN TRUE
  ELSE IF input = <<>> THEN FALSE
  ELSE IF Head(res) = Head(input)
       THEN IsSubsequence(Tail(res), Tail(input))
       ELSE IsSubsequence(res, Tail(input))

\* C33: search returns exactly the records every term of the query is a
\* substring of, in the order of the input; an empty or whitespace-only
\* query returns the input unchanged.
C33_SearchMatches ==
  search.pc = "returned" =>
    IF \A i \in 1..Len(search.query) : search.query[i] \in Whitespace
    THEN search.result = search.records
    ELSE /\ IsSubsequence(search.result, search.records)
         /\ \A i \in 1..Len(search.records) :
              MatchesQuery(search.records[i], search.query)
                <=> search.records[i] \in Range(search.result)
         /\ \A r \in Range(search.records) :
              MatchesQuery(r, search.query) =>
                Cardinality({ i \in 1..Len(search.result) :
                                search.result[i] = r })
                  = Cardinality({ i \in 1..Len(search.records) :
                                    search.records[i] = r })

\* A search with two terms in mixed case, separated by a space and a tab, has
\* returned one of two records.
C33_Witness ==
  /\ search.pc = "returned"
  /\ search.query = << "a", " ", "\t", "B" >>
  /\ Len(search.records) = 2
  /\ Len(search.result) = 1
  /\ search.result[1] = search.records[2]

\* The background loop of slot i has a page request or a write under way.
BgFetchingOrWriting(i) == bg[i].pc \in { "net", "merge", "meta" }

\* C36: at most one background remaining-pages loop is fetching or writing
\* at any time.
C36_OneBackgroundLoop ==
  Cardinality({ i \in 1..MaxBg : BgFetchingOrWriting(i) }) <= 1

\* C37: the fetch-in-progress flag is true whenever a background or
\* load-more loop is active with a token that is still current.
C37_FlagCoversCurrentLoops ==
  (BgCurrent \/ LmCurrent) => isFetchingBackground

\* The consequence C37 draws: a stopBackgroundFetch() step leaves no active
\* loop with a current token.
C37_StopCancelsAll ==
  [][event'.type = "stop" /\ ops' = ops + 1 => ~(BgCurrent \/ LmCurrent)']_vars

\* The step is a loadMoreMeetings call that returns at once, having shown
\* "All meetings loaded".
LoadMoreDeclined == event'.type = "lm-none" /\ ops' = ops + 1

\* C39: whenever hasMore() is true and no load-more is in progress, a call
\* to loadMoreMeetings starts a load-more loop (which sends a page request);
\* it returns without one only when hasMore() is false.
C39_LoadMoreFetches ==
  [][(LoadMoreDeclined /\ ~isLoadingMore) => ~hasMoreMeetings]_vars

\* --------------------------------------------- sessions and the hook

\* How often the process is restarted in one behaviour.
MaxRestarts == 1

\* The closures the hook registers with subscribe and subscribeFetching.
HookListener == 1
\* The hook is used with the constant filter {}.
HookFilter == "all"

\* The process ends and a new one starts: `new CacheManager()` runs again,
\* what the old process held in memory and was waiting for is gone, and
\* LocalStorage is what it was.  The count of calls starts again.
Restart ==
  /\ session.restarts < MaxRestarts
  /\ session' = [restarts |-> session.restarts + 1, cursor |-> nextCursor,
                 hasMore |-> hasMoreMeetings]
  /\ hook' = NoHook
  /\ ops' = 0
  /\ cachedMeetings' = {}
  /\ isCaching' = FALSE
  /\ lastApiDataHash' = NoHash
  /\ lastFetchTime' = 0
  /\ lastCacheUpdateTime' = 0
  /\ nextCursor' = NoCursor
  /\ hasMoreMeetings' = TRUE
  /\ isLoadingMore' = FALSE
  /\ remainingPagesToken' = 0
  /\ loadMoreToken' = 0
  /\ isFetchingBackground' = FALSE
  /\ fetchingDelivered' = FALSE
  /\ fetchingListeners' = {}
  /\ fetchingSeen' = [l \in ListenerIds |-> <<>>]
  /\ lastNotified' = NoNotify
  /\ listeners' = <<>>
  /\ listenerCalls' = <<>>
  /\ isLoaded' = FALSE
  /\ isLoading' = FALSE
  /\ loader' = [c \in 1..MaxLoaders |-> IdleLoader]
  /\ storageReads' = 0
  /\ queue' = [k \in Keys |-> [callers |-> 0, execs |-> 0]]
  /\ task' = [k \in Keys |-> IdleTask]
  /\ bg' = [i \in 1..MaxBg |-> IdleBg]
  /\ lm' = IdleLm
  /\ merge' = NoMerge
  /\ event' = NoEvent
  /\ UNCHANGED << numMeetings, now, storeVars, recordVars, search >>

\* How long the program may stay closed: up to the staleness threshold, or
\* past it.
AwaySteps == { CACHE_STALE_THRESHOLD, CACHE_STALE_THRESHOLD + 1 }

\* Time passes between two sessions.
Away(d) ==
  /\ session.restarts > 0
  /\ hook.pc = "unmounted"
  /\ now = T0
  /\ now' = now + d
  /\ event' = NoEvent
  /\ UNCHANGED << numMeetings, ops, storeVars, coordVars, procVars, restVars >>

\* The hook is mounted: the first render reads hasMore(), the effect
\* subscribes both listeners and calls loadCache().
HookMount ==
  /\ hook.pc = "unmounted"
  /\ hook' = [hook EXCEPT !.pc = "loading", !.hasMore = hasMoreMeetings]
  /\ listeners' = Append(listeners, HookListener)
  /\ listenerCalls' = IF isLoaded
                      THEN << Call(HookListener, cachedMeetings) >> ELSE <<>>
  /\ fetchingListeners' = fetchingListeners \cup { HookListener }
  /\ fetchingSeen' = [fetchingSeen EXCEPT
                        ![HookListener] = << isFetchingBackground >>]
  /\ LoadCacheStart(1)
  /\ UNCHANGED << numMeetings, now, storeVars, cachedMeetings, isCaching,
                  lastApiDataHash, lastFetchTime, lastCacheUpdateTime,
                  nextCursor, hasMoreMeetings, isLoadingMore,
                  remainingPagesToken, loadMoreToken, isFetchingBackground,
                  fetchingDelivered, lastNotified, procVars, isLoaded,
                  storageReads, calledVars >>

\* The hook's loadCache() has just returned.
HookLoadReturned ==
  /\ hook.pc = "loading"
  /\ loader[1].pc = "idle"
  /\ event.type = "loadCache"

\* The effect after `await cacheManager.loadCache()`: the records returned
\* are shown; a stale cache is fetched afresh, and else hasMore() is read.
HookLoaded ==
  /\ HookLoadReturned
  /\ IF IsCacheStale(lastCacheUpdateTime, now)
     THEN /\ FetchAndCacheCall(HookFilter, TRUE)
          /\ hook' = [hook EXCEPT !.pc = "fetching", !.cached = event.result]
     ELSE /\ hook' = [hook EXCEPT !.pc = "mounted", !.cached = event.result,
                                  !.hasMore = hasMoreMeetings]
          /\ UNCHANGED << numMeetings, now, ops, storeVars, coordVars,
                          procVars, loadVars, calledVars, event >>

\* The forced fetch the hook awaits has just settled.
HookFetchSettled ==
  /\ event.type = "settle"
  /\ event.key = FetchRequestKey(HookFilter, TRUE)

\* The effect after `await cacheManager.fetchAndCache(...)`: hasMore() is
\* read; a rejection is caught and only sets the error.
HookFetched ==
  /\ hook.pc = "fetching"
  /\ HookFetchSettled
  /\ hook' = [hook EXCEPT !.pc = "mounted",
                          !.hasMore = IF event.ok THEN hasMoreMeetings ELSE @]
  /\ UNCHANGED << numMeetings, now, ops, storeVars, coordVars, procVars,
                  loadVars, calledVars, event >>

\* The hook's refreshCache callback, from the moment the progress toast of
\* cacheManager.refreshCache is shown.  One refresh at a time is followed.
HookRefresh ==
  /\ hook.pc # "unmounted"
  /\ ~hook.refreshing
  /\ RefreshCacheCall(HookFilter)
  /\ hook' = [hook EXCEPT !.refreshing = TRUE]

\* The callback after `await cacheManager.refreshCache(...)`.
HookRefreshed ==
  /\ hook.refreshing
  /\ HookFetchSettled
  /\ hook' = [hook EXCEPT !.refreshing = FALSE,
                          !.hasMore = IF event.ok THEN hasMoreMeetings ELSE @]
  /\ UNCHANGED << numMeetings, now, ops, storeVars, coordVars, procVars,
                  loadVars, calledVars, event >>

\* The hook's loadMore callback: loadMoreMeetings is called, and returns
\* after the "All meetings loaded" toast when there is nothing to load.
HookLoadMore ==
  /\ hook.pc # "unmounted"
  /\ hook.loadMore = "idle"
  /\ LoadMoreMeetingsCall(HookFilter)
  /\ hook' = [hook EXCEPT !.loadMore =
                IF ~isLoadingMore /\ NothingToLoad(hasMoreMeetings, nextCursor)
                THEN "toast" ELSE "awaiting"]

\* How the loadMoreMeetings call the hook awaits has just ended.
LoadMoreReturned == { "lm-busy", "lm-aborted", "lm-done" }

\* The callback after `await cacheManager.loadMoreMeetings(...)`: hasMore()
\* is read; a rejection is caught and only sets the error.
HookLoadedMore ==
  /\ \/ hook.loadMore = "toast"
     \/ hook.loadMore = "awaiting" /\ event.type \in LoadMoreReturned \cup { "lm-failed" }
  /\ hook' = [hook EXCEPT !.loadMore = "idle",
                          !.hasMore = IF hook.loadMore = "awaiting"
                                         /\ event.type = "lm-failed"
                                      THEN @ ELSE hasMoreMeetings]
  /\ UNCHANGED << numMeetings, now, ops, storeVars, coordVars, procVars,
                  loadVars, calledVars, event >>

\* The program is opened with whatever an earlier session persisted.
InitSession ==
  /\ numMeetings \in RemoteSizes
  /\ lastCacheUpdateTime = 0
  /\ \/ /\ store = [m \in Meetings |-> 0]
        /\ index = <<>>
        /\ metadata = 0
     \/ \E a \in PersistedAges :
          /\ store = [m \in Meetings |-> IF m <= 2 THEN T0 - a ELSE 0]
          /\ index = << 1, 2 >>
          /\ metadata = T0 - a
  /\ NoRecords
  /\ InitMemory
  /\ NoView

NextSession ==
  \/ HookMount
  \/ LoadRead(1)
  \/ LoadMeta(1)
  \/ HookLoaded
  \/ HookFetched
  \/ HookRefresh
  \/ HookRefreshed
  \/ HookLoadMore
  \/ HookLoadedMore
  \/ FirstPageResponse(FilterKey(HookFilter))
  \/ FirstPageFail(FilterKey(HookFilter))
  \/ \E i \in 1..MaxBg : BgToastShown(i)
  \/ \E i \in 1..MaxBg : BgPageResponse(i)
  \/ \E i \in 1..MaxBg : BgMeta(i)
  \/ LmToastShown
  \/ LmPageResponse
  \/ LmMeta
  \/ MergeWrite
  \/ MergeReload
  \/ Restart
  \/ \E d \in AwaySteps : Away(d)

SpecSession == InitSession /\ [][NextSession]_vars

\* The step is a loadMoreMeetings call made through the hook.
HookLoadMoreCalled == hook.loadMore = "idle" /\ hook'.loadMore # "idle"

\* A session that follows a restart and has not fetched yet, the session
\* before having reached a continuation cursor with more to load.
ResumedSession ==
  /\ session.restarts > 0
  /\ session.cursor # NoCursor
  /\ session.hasMore
  /\ lastFetchTime = 0

\* C35: after the process is restarted, loadMoreMeetings continues from the
\* continuation cursor that had been reached before the restart.
C35_ResumesAtCursor ==
  [][(HookLoadMoreCalled /\ ResumedSession)
       => lm'.pc = "toast" /\ lm'.startCursor = session.cursor]_vars

\* The part of C35 that holds: the records fetched before the restart are
\* still there after it (the position in the list is not).
C35_RecordsSurvive ==
  [][Restart => GetAllCachedMeetings(store', now') = GetAllCachedMeetings(store, now)]_vars

\* The process has been restarted, has not fetched since, and the persisted
\* metadata's lastUpdated is less than 5 minutes old.
ReopenedFresh ==
  /\ session.restarts > 0
  /\ lastFetchTime = 0
  /\ metadata # 0
  /\ now - metadata < CACHE_STALE_THRESHOLD

\* The step is the staleness check that follows the hook's loadCache.
StalenessChecked == hook.pc = "loading" /\ hook'.pc \in { "fetching", "mounted" }

\* No page request is sent by the step: no task is enqueued or started.
NothingRequested ==
  /\ queue' = queue
  /\ task' = task
  /\ bg' = bg
  /\ lm' = lm
  /\ lastFetchTime' = lastFetchTime

\* C34: when the process restarts and the persisted metadata is less than
\* 5 minutes old, mounting the hook (loadCache followed by the staleness
\* check) shows the cached records and sends no page request.
C34_ReopenFresh ==
  [][(StalenessChecked /\ ReopenedFresh)
       => /\ NothingRequested
          /\ hook'.pc = "mounted"
          /\ hook'.cached = GetAllCachedMeetings(store, now)]_vars

\* The hook is mounted in a reopened session with fresh metadata, shows
\* the records persisted before, and nothing has been requested.
C34_Witness ==
  /\ ReopenedFresh
  /\ hook.pc = "mounted"
  /\ hook.cached # {}
  /\ hook.cached = GetAllCachedMeetings(store, now)
  /\ Quiescent
  /\ \A k \in Keys : queue[k].callers = 0

\* The hook waits for nothing: it is mounted and none of its callbacks is
\* in progress.
HookSettled ==
  /\ hook.pc = "mounted"
  /\ ~hook.refreshing
  /\ hook.loadMore = "idle"

\* C40: whenever the coordinator is quiescent, the hook's hasMore equals
\* cacheManager.hasMore(); so after a background loop ends on a page
\* without a cursor the hook's hasMore is false without any user action.
C40_HookFollows ==
  (Quiescent /\ HookSettled) => hook.hasMore = hasMoreMeetings

\* The part of C40 that holds: when a call the hook awaits returns, the
\* hook's hasMore is the coordinator's at that moment.
C40_ReadOnReturn ==
  [][(HookSettled' /\ ~HookSettled /\ event.ok) => hook'.hasMore = hasMoreMeetings']_vars
====
